---- MODULE Spec2Model ----
(***************************************************************************)
(* Multi-tenant scheduled feedback pipeline (buzzinsights backend):        *)
(* recurring ingestion, content upsert, batch categorization, threshold    *)
(* alerting and the queue lifecycle around them.                           *)
(*                                                                         *)
(* The relational store is modelled table by table (preferences, posts,    *)
(* notificationHistory); the Bull / BullMQ queues by their repeatable      *)
(* schedules and their jobs.  A handler whose overlapping runs matter is   *)
(* split at the await between its read and its write, so the              *)
(* interleavings of those runs are behaviours of the model.                *)
(*                                                                         *)
(* Time is counted in hours (Preferences.timeWindow is in hours; the code  *)
(* multiplies by 60*60*1000 on both sides of every comparison).            *)
(***************************************************************************)
EXTENDS Integers, Sequences, FiniteSets, TLC

\* SQL NULL / JS null, one per column type
Null == "null"          \* a nullable string column
NoId == <<>>            \* a userId / orgId that is not set
NullNum == 0 - 1        \* a nullable number or timestamp
NoRow == [exists |-> FALSE]

(***************************************************************************)
(* Tenant identifiers.  Ids are strings in the code and several handlers   *)
(* match them with String.includes, so an id is a tuple of characters and  *)
(* Includes is the substring test.                                         *)
(***************************************************************************)
U1 == <<"u", "1">>
U12 == <<"u", "1", "2">>
O1 == <<"o", "1">>

UserIds == {U1, U12}
OrgIds == {O1}

\* s.includes(sub)
Includes(s, sub) ==
    \E i \in 0..(Len(s) - Len(sub)) :
        \A k \in 1..Len(sub) : s[i + k] = sub[k]

\* A tenant is a Preferences key: exactly one of userId / orgId.
UserT(id) == [userId |-> id, orgId |-> NoId]
OrgT(id) == [userId |-> NoId, orgId |-> id]
Tenants == {UserT(u) : u \in UserIds} \cup {OrgT(o) : o \in OrgIds}

(***************************************************************************)
(* Bounds.                                                                 *)
(***************************************************************************)
MaxHours == 2         \* hours the clock advances in a behaviour
MaxAlerts == 2        \* deliveries recorded per behaviour

VARIABLES
    clock,          \* current time, hours since the epoch
    preferences,    \* Preferences table: Tenants -> row or Null
    posts,          \* RedditPost table: PostIds -> row or NoRow
    alertImpl,      \* which notification processor the build registers
    alertRuns,      \* per worker: the notification job it is processing
    sent,           \* deliveries handed to the mail transport, in order
    notificationHistory,  \* NotificationHistory rows, in order
    ingestRun,      \* the ingestion job being processed: its payload, or Idle
    categories,     \* per tenant: how many feedback + product categories it has
    catRun,         \* the categorization job being processed, or Idle
    emailJobs,      \* bucket-notification jobs added to the email queue
    ingestionRepeat,  \* ingestion queue: the registered repeatable jobs
    ingestionJobs,    \* ingestion queue: delayed / waiting / active jobs
    failedEvents,     \* ingestion queue: "failed" events not yet handled
    stopIngestion,    \* the POST /stop request in progress, or Idle
    failureStopped,   \* tenants whose ingestionActive the "failed" listener
                      \* cleared and who have not started ingestion since
    catSchedulers,    \* categorization queue: the registered job schedulers
    catJobs,          \* categorization queue: its job instances
    catSpawned,       \* categorization queue: job instances created so far
    catStart,         \* per caller: the startCategorization call in progress
    redditComments,   \* RedditComment table: CommentIds -> row or NoRow
    commentRun,       \* the processComments walk in progress, or Idle
    metricsResponse,  \* the last answer of GET /metrics or GET /metrics/new
    settingsRequest,      \* the notification-settings request served last
                          \* (a history variable: the code keeps no such record)
    notificationRepeat,   \* notification queue: the registered repeatable jobs
    notificationJobs,     \* notification queue: its waiting and delayed jobs
    notificationCall      \* the startNotifications / stopNotifications call in
                          \* progress, or Idle

vars == <<clock, preferences, posts, alertImpl, alertRuns, sent, notificationHistory,
          ingestRun, categories, catRun, emailJobs,
          ingestionRepeat, ingestionJobs, failedEvents, stopIngestion, failureStopped,
          catSchedulers, catJobs, catSpawned, catStart, redditComments, commentRun,
          metricsResponse, settingsRequest, notificationRepeat, notificationJobs,
          notificationCall>>

alertVars == <<alertImpl, alertRuns, sent, notificationHistory>>
classifyVars == <<categories, catRun, emailJobs>>
ingestJobVars == <<ingestionRepeat, ingestionJobs, failedEvents, stopIngestion,
                   failureStopped>>
catJobVars == <<catSchedulers, catJobs, catSpawned, catStart>>
replyVars == <<redditComments, commentRun>>
metricsVars == <<metricsResponse>>
notifyQueueVars == <<notificationRepeat, notificationJobs, notificationCall>>
notifyVars == <<settingsRequest, notifyQueueVars>>

\* What the actions of one component leave alone in the other components
alertOthers == <<ingestRun, classifyVars, ingestJobVars, catJobVars, replyVars,
    metricsVars, notifyVars>>
upsertOthers == <<alertVars, classifyVars, ingestJobVars, catJobVars, replyVars,
    metricsVars, notifyVars>>
classifyOthers == <<alertVars, ingestRun, ingestJobVars, catJobVars, replyVars,
    metricsVars, notifyVars>>
ingestJobOthers == <<clock, posts, ingestRun, alertVars, classifyVars, catJobVars, replyVars,
    metricsVars, notifyVars>>
catJobOthers == <<posts, ingestRun, alertVars, classifyVars, ingestJobVars, replyVars,
    metricsVars, notifyVars>>
replyOthers == <<preferences, ingestRun, alertVars, classifyVars, ingestJobVars, catJobVars,
    metricsVars, notifyVars>>


PostIds == {"p1", "p2", "p3"}

\* Two processes consume the notifications queue, each with concurrency 1.
AlertWorkers == {"w1", "w2"}
\* timeWindow values the tenants configure, in hours
Windows == {1, 2}
\* Tenants whose alert jobs are scheduled
AlertTenants == {UserT(U1), OrgT(O1)}
\* The clock starts well past the epoch: more than any window after Date(0)
StartClock == 3
MaxClock == StartClock + MaxHours
Idle == [pc |-> "idle"]

\* The ingestion queue as new Queue("ingestion-queue") leaves it
IngestionQueueEmpty ==
    /\ ingestionRepeat = {}
    /\ ingestionJobs = {}
    /\ failedEvents = {}
    /\ stopIngestion = Idle
    /\ failureStopped = {}

\* RedditComment ids the feed returns
CommentIds == {"c1", "c2", "c3", "c4", "c5", "c6"}

\* The RedditComment table before any ingestion
CommentsEmpty ==
    /\ redditComments = [c \in CommentIds |-> NoRow]
    /\ commentRun = Idle

\* No metrics request has been answered yet
NoMetricsRequest == metricsResponse = Idle

\* The notification queue as new Queue("notification-queue") leaves it, and no
\* settings request served yet
NotificationQueueEmpty ==
    /\ settingsRequest = Idle
    /\ notificationRepeat = {}
    /\ notificationJobs = {}
    /\ notificationCall = Idle

\* Callers of startCategorization whose calls may overlap
CatCallers == {"a", "b"}

\* The categorization queue as new Queue("categorization-queue") leaves it
CategorizationQueueEmpty ==
    /\ catSchedulers = {}
    /\ catJobs = {}
    /\ catSpawned = 0
    /\ catStart = [c \in CatCallers |-> Idle]

\* A Preferences row as the schema's column defaults create it
DefaultPrefs ==
    [exists |-> TRUE, ingestionSchedule |-> Null, ingestionActive |-> FALSE,
     commentGrowthThreshold |-> 2, emails |-> {}, enabled |-> TRUE,
     issueThreshold |-> 0, lastNotified |-> NullNum, sentimentThreshold |-> 0,
     timeWindow |-> 24, triggerCategorization |-> FALSE,
     volumeThresholdMultiplier |-> <<3, 2>>]

(***************************************************************************)
(* Content Upsert Engine: saveAndProcessPost                               *)
(*                                                                         *)
(* A RedditPost row carries the columns the pipeline reads or writes.      *)
(* title, content, thumbnail, imageUrl and authorProfilePhoto are copied   *)
(* from the fetched payload on both branches of the upsert exactly as      *)
(* author is; sameIssuesCount stands for the five derived counters, which  *)
(* are always written together.                                            *)
(***************************************************************************)

\* prisma.redditPost.upsert, create branch
PostCreate(i, f, userId, orgId, now) ==
    [exists |-> TRUE, id |-> i,
     author |-> f.author, permalink |-> f.permalink, createdUtc |-> f.created_utc,
     score |-> f.score, numComments |-> f.num_comments, lastUpdated |-> now,
     needsProcessing |-> TRUE, processingPriority |-> 0,
     sentimentScore |-> NullNum, sentimentCategory |-> Null,
     category |-> Null, product |-> Null, sameIssuesCount |-> 0,
     userId |-> userId, orgId |-> orgId,
     addedToBucketByAI |-> FALSE, buckets |-> {}]

\* prisma.redditPost.upsert, update branch: every column of the create branch
\* but id is written again; columns the branch does not name keep their value.
PostUpdate(row, f, userId, orgId, now) ==
    [row EXCEPT
        !.author = f.author, !.permalink = f.permalink, !.createdUtc = f.created_utc,
        !.score = f.score, !.numComments = f.num_comments, !.lastUpdated = now,
        !.needsProcessing = TRUE, !.processingPriority = 0,
        !.sentimentScore = NullNum, !.sentimentCategory = Null,
        !.category = Null, !.product = Null, !.sameIssuesCount = 0,
        !.userId = userId, !.orgId = orgId]

\* prisma.redditPost.upsert({ where: { id: post.id }, update, create })
PostUpsert(row, i, f, userId, orgId, now) ==
    IF row = NoRow THEN PostCreate(i, f, userId, orgId, now)
    ELSE PostUpdate(row, f, userId, orgId, now)

\* What getPostsFromSubReddits maps a listing entry to.  The same post fetched
\* again carries new counters; its author reads "[deleted]" once the account is
\* gone; a missing permalink maps to "" and a missing created_utc to the fetch time.
Fetched(now) ==
    { [author |-> "alice", permalink |-> "/r/app/1", created_utc |-> 1,
       score |-> 1, num_comments |-> 0],
      [author |-> "alice", permalink |-> "/r/app/1", created_utc |-> 1,
       score |-> 5, num_comments |-> 2],
      [author |-> "[deleted]", permalink |-> "/r/app/1", created_utc |-> 1,
       score |-> 5, num_comments |-> 2],
      [author |-> "alice", permalink |-> "", created_utc |-> now,
       score |-> 1, num_comments |-> 0] }

\* Payloads of the ingestion jobs POST /start enqueues: a user's own job, and an
\* organization's job, which carries the admin's userId next to the orgId.
IngestJobs == { [userId |-> U1, orgId |-> NoId], [userId |-> U1, orgId |-> O1] }

\* Posts a run of this specification fetches
UpsertIds == {"p1", "p2"}

\* ingestionQueue.process: a job becomes active
IngestBegin(j) ==
    /\ ingestRun = Idle
    /\ ingestRun' = [pc |-> "posts", userId |-> j.userId, orgId |-> j.orgId]
    /\ UNCHANGED <<clock, preferences, posts, upsertOthers>>

\* saveAndProcessPost(post, userId, orgId): the upsert of one fetched post
SaveAndProcessPost(i, f) ==
    /\ ingestRun.pc = "posts"
    /\ posts' = [posts EXCEPT ![i] =
           PostUpsert(posts[i], i, f, ingestRun.userId, ingestRun.orgId, clock)]
    /\ UNCHANGED <<clock, preferences, ingestRun, upsertOthers>>

\* the loop over the fetched posts ends: return { success: true }
IngestComplete ==
    /\ ingestRun.pc = "posts"
    /\ ingestRun' = Idle
    /\ UNCHANGED <<clock, preferences, posts, upsertOthers>>

\* The classifier applies one result to a post (the update of the batch transaction).
ClassifiedRow(row, item) ==
    [row EXCEPT
        !.product = item.product, !.category = item.category,
        !.sameIssuesCount = item.sameIssuesCount,
        !.needsProcessing = FALSE,
        !.sentimentScore = item.sentimentScore,
        !.sentimentCategory = item.sentimentCategory]

\* A result as the classifier returns it for a post about a crash
SampleResult ==
    [product |-> "App", category |-> "Bug", sameIssuesCount |-> 2,
     sentimentScore |-> 1, sentimentCategory |-> "Negative"]

\* A categorization run in between two fetches classifies a pending post.
UpsertClassify(i) ==
    /\ posts[i] # NoRow
    /\ posts[i].needsProcessing
    /\ posts' = [posts EXCEPT ![i] = ClassifiedRow(posts[i], SampleResult)]
    /\ UNCHANGED <<clock, preferences, ingestRun, upsertOthers>>

\* An hour passes between fetches.
UpsertHour ==
    /\ clock < MaxClock
    /\ clock' = clock + 1
    /\ UNCHANGED <<preferences, posts, ingestRun, upsertOthers>>

UpsertInit ==
    /\ clock = StartClock
    /\ preferences = [t \in Tenants |-> NoRow]
    /\ posts = [i \in PostIds |-> NoRow]
    /\ alertImpl = "worker"
    /\ alertRuns = [w \in AlertWorkers |-> Idle]
    /\ sent = <<>>
    /\ notificationHistory = <<>>
    /\ ingestRun = Idle
    /\ categories = [t \in Tenants |-> 0]
    /\ catRun = Idle
    /\ emailJobs = 0
    /\ IngestionQueueEmpty
    /\ CategorizationQueueEmpty
    /\ CommentsEmpty
    /\ NoMetricsRequest
    /\ NotificationQueueEmpty

UpsertNext ==
    \/ \E j \in IngestJobs : IngestBegin(j)
    \/ \E i \in UpsertIds, f \in Fetched(clock) : SaveAndProcessPost(i, f)
    \/ IngestComplete
    \/ \E i \in UpsertIds : UpsertClassify(i)
    \/ UpsertHour

SpecUpsert == UpsertInit /\ [][UpsertNext]_vars

\* The origin columns of a row
Origin(row) == <<row.author, row.createdUtc, row.permalink>>

(***************************************************************************)
(* C2: an upsert of an id that is already persisted leaves the origin      *)
(* fields written at creation (author, createdUtc, permalink) unchanged.   *)
(* (One row per id is the table's primary key.)                            *)
(***************************************************************************)
C2_OriginImmutable ==
    [][\A i \in PostIds :
          posts[i] # NoRow =>
              posts'[i] # NoRow /\ Origin(posts'[i]) = Origin(posts[i])]_vars

(***************************************************************************)
(* C3: an upsert of an already persisted item changes only score,          *)
(* numComments and lastUpdated; in particular it never turns               *)
(* needsProcessing=false back into true.                                   *)
(***************************************************************************)
C3_UpdateRefreshesCountersOnly ==
    [][\A i \in UpsertIds, f \in Fetched(clock) :
          (SaveAndProcessPost(i, f) /\ posts[i] # NoRow) =>
              posts'[i] = [posts[i] EXCEPT !.score = f.score,
                                           !.numComments = f.num_comments,
                                           !.lastUpdated = clock]]_vars

\* The consequence the claim names: a classified item is never un-classified.
C3_NeverUnclassified ==
    [][\A i \in PostIds :
          (posts[i] # NoRow /\ ~posts[i].needsProcessing) =>
              ~posts'[i].needsProcessing]_vars

(***************************************************************************)
(* C17: every persisted post identifies its tenant by exactly one of       *)
(* userId and orgId.  (A Preferences row is keyed by the one id POST       *)
(* /start puts in its where and create clauses.)                           *)
(***************************************************************************)
C17_ExactlyOneTenantId ==
    \A i \in PostIds :
        posts[i] # NoRow => ((posts[i].userId = NoId) # (posts[i].orgId = NoId))

\* The part of C17 that holds: no post is stored without any tenant id
C17_NeverBothEmpty ==
    \A i \in PostIds :
        posts[i] # NoRow => (posts[i].userId # NoId \/ posts[i].orgId # NoId)

(***************************************************************************)
(* C36: the tenant ownership (userId, orgId) of a persisted post never     *)
(* changes: when another tenant's run fetches a post with the same id, the *)
(* post stays with the tenant whose run created it.                        *)
(***************************************************************************)
Owner(row) == <<row.userId, row.orgId>>

C36_OwnershipImmutable ==
    [][\A i \in PostIds :
          posts[i] # NoRow =>
              posts'[i] # NoRow /\ Owner(posts'[i]) = Owner(posts[i])]_vars

\* What does hold: a post is owned by the tenant of the run that upserted it
\* last, and only an upsert changes the owner
C36_OwnerIsLastUpserter ==
    [][\A i \in PostIds :
          (posts'[i] # NoRow /\ (posts[i] = NoRow \/ Owner(posts'[i]) # Owner(posts[i])))
             => /\ ingestRun # Idle
                /\ Owner(posts'[i]) = <<ingestRun.userId, ingestRun.orgId>>]_vars

(***************************************************************************)
(* One ingestion run: ingestionQueue.process                               *)
(*                                                                         *)
(* getPostsFromSubReddits fetches the watched subreddits one after the     *)
(* other, each inside its own try block, and the processor then upserts    *)
(* the fetched posts list by list, post by post.  saveAndProcessPost       *)
(* rethrows what it catches and the processor rethrows in turn, which      *)
(* rejects the job.                                                        *)
(***************************************************************************)
\* job.data.subReddits: the watched subreddits of a run, in order
WatchLists == {<<"a", "b">>, <<"b", "c", "a">>}

\* What the feed lists for a subreddit; an entry without an id reads Null
SubRedditFeed(name) ==
    CASE name = "a" -> <<"p1", Null, "p2">>
      [] name = "b" -> <<"p3">>
      [] OTHER -> <<"p2">>

\* mappedPosts.filter(post => post !== null): entries without an id are dropped
ValidPosts(listing) == SelectSeq(listing, LAMBDA e : e # Null)

\* results.push(validPosts)
FetchSucceeded(results, name) == Append(results, ValidPosts(SubRedditFeed(name)))

\* A catch block that pushes nothing
FetchFailed_NoEntry(results) == results

\* catch (error) { results.push([]) }
FetchFailed(results) == Append(results, <<>>)

\* for (const posts of allPosts) for (const post of posts): the posts in the
\* order the loops visit them
RECURSIVE AllPosts(_)
AllPosts(results) ==
    IF results = <<>> THEN <<>> ELSE Head(results) \o AllPosts(Tail(results))

\* The payload a feed entry is mapped to
FeedPost ==
    [author |-> "alice", permalink |-> "/r/app/1", created_utc |-> 1,
     score |-> 1, num_comments |-> 0]

\* ingestionQueue.process: a job becomes active
FetchRunBegin(j, subs) ==
    /\ ingestRun = Idle
    /\ ingestRun' = [pc |-> "fetch", userId |-> j.userId, orgId |-> j.orgId,
                     subReddits |-> subs, fetched |-> 0, results |-> <<>>,
                     failedFetch |-> {}, next |-> 1, failedAt |-> 0]
    /\ UNCHANGED <<clock, preferences, posts, upsertOthers>>

\* getPostsFromSubReddits, one iteration of its loop: the fetch of the next
\* subreddit returns its listing or throws
GetPostsFromSubReddit(ok) ==
    /\ ingestRun # Idle /\ ingestRun.pc = "fetch"
    /\ LET k == ingestRun.fetched + 1
           name == ingestRun.subReddits[k]
       IN ingestRun' = [ingestRun EXCEPT
              !.fetched = k,
              !.results = IF ok THEN FetchSucceeded(@, name) ELSE FetchFailed(@),
              !.failedFetch = IF ok THEN @ ELSE @ \cup {k},
              !.pc = IF k = Len(ingestRun.subReddits) THEN "save" ELSE "fetch"]
    /\ UNCHANGED <<clock, preferences, posts, upsertOthers>>

\* One iteration of the processor's loops: saveAndProcessPost upserts the next
\* post, or its upsert throws, saveAndProcessPost rethrows and the processor's
\* catch rethrows, which fails the job
SaveNextPost(ok) ==
    /\ ingestRun # Idle /\ ingestRun.pc = "save"
    /\ ingestRun.next <= Len(AllPosts(ingestRun.results))
    /\ LET i == AllPosts(ingestRun.results)[ingestRun.next]
       IN IF ok
          THEN /\ posts' = [posts EXCEPT ![i] =
                     PostUpsert(posts[i], i, FeedPost, ingestRun.userId,
                                ingestRun.orgId, clock)]
               /\ ingestRun' = [ingestRun EXCEPT !.next = @ + 1]
          ELSE /\ posts' = posts
               /\ ingestRun' = [ingestRun EXCEPT !.pc = "failed", !.failedAt = ingestRun.next]
    /\ UNCHANGED <<clock, preferences, upsertOthers>>

\* The loops end: return { success: true }
FetchRunReturn ==
    /\ ingestRun # Idle /\ ingestRun.pc = "save"
    /\ ingestRun.next > Len(AllPosts(ingestRun.results))
    /\ ingestRun' = [ingestRun EXCEPT !.pc = "completed"]
    /\ UNCHANGED <<clock, preferences, posts, upsertOthers>>

FetchRunNext ==
    \/ \E j \in IngestJobs, subs \in WatchLists : FetchRunBegin(j, subs)
    \/ \E ok \in BOOLEAN : GetPostsFromSubReddit(ok)
    \/ \E ok \in BOOLEAN : SaveNextPost(ok)
    \/ FetchRunReturn

SpecFetchRun == UpsertInit /\ [][FetchRunNext]_vars

\* Positions of the run's posts whose upsert has been done
SavedPositions ==
    {n \in 1..Len(AllPosts(ingestRun.results)) :
        n < ingestRun.next /\ n # ingestRun.failedAt}

(***************************************************************************)
(* C23: when the upsert of one post of a run fails, every other post of    *)
(* the run is still upserted, and the run is reported as failed.           *)
(***************************************************************************)
C23_ErrorSkipsOnlyFailingPost ==
    (ingestRun # Idle /\ ingestRun.failedAt # 0)
       => /\ ingestRun.pc = "failed"
          /\ SavedPositions =
                 (1..Len(AllPosts(ingestRun.results))) \ {ingestRun.failedAt}

\* What does hold: the run is failed, the posts before the failing one stay
\* upserted and no later post is touched.
C23_ErrorEndsRun ==
    (ingestRun # Idle /\ ingestRun.failedAt # 0)
       => /\ ingestRun.pc = "failed"
          /\ SavedPositions = 1..(ingestRun.failedAt - 1)
          /\ \A n \in 1..(ingestRun.failedAt - 1) :
                 posts[AllPosts(ingestRun.results)[n]] # NoRow

BATCH_SIZE == 10
\* errorCount >= 3 aborts the job
MAX_BATCH_ERRORS == 3
\* bucketSuggestions are connected when confidence > 0.6 (confidences in 1/100)
BUCKET_CONFIDENCE == 60

MaxCatRuns == 1       \* categorization jobs processed in a behaviour

\* The tenant whose categorization job runs, and a tenant it must not touch
CatTenant == UserT(U1)
OtherTenant == OrgT(O1)

\* FeedbackBucket rows
ExistingBuckets == {"b1"}

\* where: isOrg ? { orgId: targetId } : { userId: targetId }
OwnedBy(row, t) ==
    IF t.orgId # NoId THEN row.orgId = t.orgId ELSE row.userId = t.userId

\* An ordering by createdUtc alone
Before_CreatedOnly(x, y) ==
    \/ posts[x].createdUtc < posts[y].createdUtc
    \/ posts[x].createdUtc = posts[y].createdUtc /\ x < y

\* orderBy: [{ processingPriority: "asc" }, { createdUtc: "asc" }]; rows equal on
\* both keys come in id order
Before(x, y) ==
    \/ posts[x].processingPriority < posts[y].processingPriority
    \/ /\ posts[x].processingPriority = posts[y].processingPriority
       /\ \/ posts[x].createdUtc < posts[y].createdUtc
          \/ posts[x].createdUtc = posts[y].createdUtc /\ x < y

RECURSIVE SortPosts(_)
SortPosts(S) ==
    IF S = {} THEN <<>>
    ELSE LET m == CHOOSE x \in S : \A y \in S \ {x} : Before(x, y)
         IN <<m>> \o SortPosts(S \ {m})

\* redditPost.findMany({ where: { tenant, needsProcessing: true }, orderBy })
UnprocessedPosts(t) ==
    SortPosts({i \in DOMAIN posts :
                  posts[i] # NoRow /\ OwnedBy(posts[i], t) /\ posts[i].needsProcessing})

Min(a, b) == IF a < b THEN a ELSE b

\* unprocessedPosts.slice(i, i + BATCH_SIZE), as the set of its ids
BatchIds(list, i) == {list[k] : k \in (i + 1)..Min(i + BATCH_SIZE, Len(list))}

\* One entry of analysis.results
ResultFor(i, suggestions) ==
    [id |-> i, product |-> "App", category |-> "Bug", sameIssuesCount |-> 2,
     sentimentScore |-> 1, sentimentCategory |-> "Negative",
     bucketSuggestions |-> suggestions]

\* What the language model answers for a batch: a result per post; the same with
\* a bucket suggestion for one post, above, at or below the acceptance threshold; a
\* result for only some of the posts; a result naming a post that is not in the
\* batch; a result naming an id or a bucket that does not exist.
Responses(batch) ==
    LET full == {ResultFor(i, {}) : i \in batch}
        one == CHOOSE i \in batch : TRUE
        foreign == {i \in DOMAIN posts :
                       posts[i] # NoRow /\ ~OwnedBy(posts[i], CatTenant)}
    IN { full,
         (full \ {ResultFor(one, {})})
             \cup {ResultFor(one, {[bucketId |-> "b1", confidence |-> 75]})},
         (full \ {ResultFor(one, {})})
             \cup {ResultFor(one, {[bucketId |-> "b1", confidence |-> 55]})},
         (full \ {ResultFor(one, {})})
             \cup {ResultFor(one, {[bucketId |-> "b1", confidence |-> 60]})},
         full \ {ResultFor(one, {})},
         (full \ {ResultFor(one, {})})
             \cup {ResultFor(one, {[bucketId |-> "b9", confidence |-> 90]})} }
       \cup {full \cup {ResultFor(x, {})} : x \in foreign}
       \cup {full \cup {ResultFor(0, {})}}

\* A filter that also accepts a suggestion exactly at the threshold
Accepted_AtThreshold(item) == {g \in item.bucketSuggestions : g.confidence >= BUCKET_CONFIDENCE}

\* suggestion.confidence > 0.6
Accepted(item) == {g \in item.bucketSuggestions : g.confidence > BUCKET_CONFIDENCE}

\* redditPost.update of one result inside the transaction
ApplyResult(row, item) ==
    [ClassifiedRow(row, item) EXCEPT
        !.buckets = row.buckets \cup {g.bucketId : g \in Accepted(item)},
        !.addedToBucketByAI = (Accepted(item) # {})]

\* prisma rejects the transaction when an update names a row that does not exist
\* or connects a bucket that does not exist
TransactionFails(results) ==
    \E item \in results :
        \/ item.id \notin DOMAIN posts
        \/ posts[item.id] = NoRow
        \/ \E g \in Accepted(item) : g.bucketId \notin ExistingBuckets

\* Updates that are applied one by one and stop after the first
TransactionApply_FirstOnly(results) ==
    IF results = {} THEN posts
    ELSE LET first == CHOOSE item \in results : \A other \in results : item.id <= other.id
         IN [posts EXCEPT ![first.id] = ApplyResult(posts[first.id], first)]

\* prisma.$transaction(analysis.results.map(update)): all updates or none
\* (the responses above name each id once)
TransactionApply(results) ==
    [i \in DOMAIN posts |->
        IF \E item \in results : item.id = i
        THEN ApplyResult(posts[i], CHOOSE item \in results : item.id = i)
        ELSE posts[i]]

\* An updateMany that marks every pending post Noise, whoever owns it
MarkNoise_EveryTenant(t) ==
    [i \in DOMAIN posts |->
        IF posts[i] # NoRow /\ posts[i].needsProcessing
        THEN [posts[i] EXCEPT !.category = "Noise", !.product = "Noise",
                              !.needsProcessing = FALSE]
        ELSE posts[i]]

\* redditPost.updateMany of the no-categories branch
MarkNoise(t) ==
    [i \in DOMAIN posts |->
        IF posts[i] # NoRow /\ OwnedBy(posts[i], t) /\ posts[i].needsProcessing
        THEN [posts[i] EXCEPT !.category = "Noise", !.product = "Noise",
                              !.needsProcessing = FALSE]
        ELSE posts[i]]

\* The job becomes active: categories are read; with none configured every
\* pending post of the tenant is marked Noise and the job returns.
\* (consecutive is a history field, not a variable of the code: the number of
\* batches that have failed since the last batch that succeeded.)
CatBegin ==
    /\ catRun = Idle \/ catRun.pc \in {"completed", "failed"}
    /\ (IF catRun = Idle THEN 0 ELSE catRun.runs) < MaxCatRuns
    /\ LET t == CatTenant
           runs == (IF catRun = Idle THEN 0 ELSE catRun.runs) + 1
           list == UnprocessedPosts(t)
           fresh == [pc |-> "completed", status |-> "completed", runs |-> runs,
                     list |-> list, i |-> 0, processedCount |-> 0, errorCount |-> 0,
                     results |-> {}, before |-> <<>>, threw |-> "no",
                     consecutive |-> 0]
       IN IF categories[t] = 0
          THEN /\ posts' = MarkNoise(t)
               /\ catRun' = [fresh EXCEPT !.status = "no_categories", !.list = <<>>]
          ELSE /\ posts' = posts
               /\ catRun' = IF list = <<>>
                            THEN [fresh EXCEPT !.status = "no_posts"]
                            ELSE [fresh EXCEPT !.pc = "invoke",
                                    !.before = [k \in BatchIds(list, 0) |->
                                                  posts[k].processingPriority]]
    /\ UNCHANGED <<clock, preferences, categories, emailJobs, classifyOthers>>

\* The batch in hand
CurrentBatch == BatchIds(catRun.list, catRun.i)

\* model.invoke(prompt) and JSON.parse: an answer, or an exception
CatInvoke ==
    /\ catRun # Idle /\ catRun.pc = "invoke"
    /\ \/ \E r \in Responses(CurrentBatch) :
             catRun' = [catRun EXCEPT !.pc = "apply", !.results = r]
       \/ catRun' = [catRun EXCEPT !.pc = "catch", !.threw = "invoke"]
    /\ UNCHANGED <<clock, preferences, posts, categories, emailJobs, classifyOthers>>

\* prisma.$transaction of the batch: committed, or rejected / failed as a whole
CatApply ==
    /\ catRun # Idle /\ catRun.pc = "apply"
    /\ \/ /\ ~TransactionFails(catRun.results)
          /\ posts' = TransactionApply(catRun.results)
          /\ catRun' = [catRun EXCEPT !.pc = "notify"]
       \/ /\ posts' = posts
          /\ catRun' = [catRun EXCEPT !.pc = "catch", !.threw = "transaction"]
    /\ UNCHANGED <<clock, preferences, categories, emailJobs, classifyOthers>>

\* Posts of the batch the transaction linked to a bucket
AiAddedPosts == {i \in CurrentBatch : posts[i].addedToBucketByAI}

\* After the commit: find the posts added to buckets, read the tenant's
\* recipients and add a bucket-notification job to the email queue.  Any of these
\* awaits can reject, inside the batch's try block.
CatNotify ==
    /\ catRun # Idle /\ catRun.pc = "notify"
    /\ LET mails == IF AiAddedPosts # {} /\ preferences[CatTenant] # NoRow
                       /\ preferences[CatTenant].emails # {}
                    THEN 1 ELSE 0
       IN \/ /\ emailJobs' = emailJobs + mails
             /\ catRun' = [catRun EXCEPT !.pc = "delay", !.threw = "no",
                   !.consecutive = 0,
                   !.processedCount = @ + Cardinality(CurrentBatch)]
          \/ /\ emailJobs' = emailJobs
             /\ catRun' = [catRun EXCEPT !.pc = "catch", !.threw = "notify"]
    /\ UNCHANGED <<clock, preferences, posts, categories, classifyOthers>>

\* catch (error): errorCount++, processingPriority + 1 for the batch, and the
\* job aborts once errorCount reaches 3
CatCatch ==
    /\ catRun # Idle /\ catRun.pc = "catch"
    /\ posts' = [i \in DOMAIN posts |->
           IF i \in CurrentBatch
           THEN [posts[i] EXCEPT !.processingPriority = @ + 1]
           ELSE posts[i]]
    /\ catRun' = [catRun EXCEPT
           !.errorCount = @ + 1,
           !.consecutive = @ + 1,
           !.pc = IF catRun.errorCount + 1 >= MAX_BATCH_ERRORS THEN "failed" ELSE "delay",
           !.status = IF catRun.errorCount + 1 >= MAX_BATCH_ERRORS
                      THEN "too_many_errors" ELSE @]
    /\ UNCHANGED <<clock, preferences, categories, emailJobs, classifyOthers>>

\* The delay between batches, then the next batch or the end of the job
CatDelay ==
    /\ catRun # Idle /\ catRun.pc = "delay"
    /\ LET next == catRun.i + BATCH_SIZE
       IN catRun' = IF next < Len(catRun.list)
                    THEN [catRun EXCEPT !.pc = "invoke", !.i = next, !.threw = "no",
                            !.results = {},
                            !.before = [k \in BatchIds(catRun.list, next) |->
                                          posts[k].processingPriority]]
                    ELSE [catRun EXCEPT !.pc = "completed"]
    /\ UNCHANGED <<clock, preferences, posts, categories, emailJobs, classifyOthers>>

\* A pending post of the tenant, fetched at hour `created` after earlier failures
PendingPost(i, t, created, priority) ==
    [PostCreate(i, [author |-> "alice", permalink |-> "/r/app/1",
                    created_utc |-> created, score |-> 1, num_comments |-> 0],
                t.userId, t.orgId, created)
        EXCEPT !.processingPriority = priority]

\* How many posts the tenant has when the job starts, the last of them
\* classified by an earlier job: none, one batch, two batches, four batches
PendingCounts == {0, 2, BATCH_SIZE + 2, 3 * BATCH_SIZE + 2}

ClassifyInit ==
    /\ clock = StartClock
    /\ \E n \in PendingCounts, otherPending \in BOOLEAN :
          posts = [i \in 1..(n + 1) |->
                     IF i < n
                     THEN PendingPost(i, CatTenant, n + 1 - i, i % 2)
                     ELSE IF i = n
                     THEN ClassifiedRow(PendingPost(i, CatTenant, 1, 0), ResultFor(i, {}))
                     ELSE IF otherPending THEN PendingPost(i, OtherTenant, 1, 0)
                     ELSE ClassifiedRow(PendingPost(i, OtherTenant, 1, 0),
                                        ResultFor(i, {}))]
    /\ categories \in {[t \in Tenants |-> 0], [t \in Tenants |-> 2]}
    /\ preferences \in {[t \in Tenants |-> [DefaultPrefs EXCEPT !.emails = e]] :
                           e \in {{}, {"ops"}}}
    /\ catRun = Idle
    /\ emailJobs = 0
    /\ IngestionQueueEmpty
    /\ CategorizationQueueEmpty
    /\ CommentsEmpty
    /\ NoMetricsRequest
    /\ NotificationQueueEmpty
    /\ alertImpl = "worker"
    /\ alertRuns = [w \in AlertWorkers |-> Idle]
    /\ sent = <<>>
    /\ notificationHistory = <<>>
    /\ ingestRun = Idle

ClassifyNext ==
    \/ CatBegin
    \/ CatInvoke
    \/ CatApply
    \/ CatNotify
    \/ CatCatch
    \/ CatDelay

SpecClassify == ClassifyInit /\ [][ClassifyNext]_vars

(***************************************************************************)
(* C4: when the processing of a batch throws inside the batch's try block, *)
(* once the catch block has run no item of the batch is marked processed   *)
(* and every item's processingPriority is greater than before the batch.   *)
(***************************************************************************)
C4_FailedBatchStaysPending ==
    (catRun # Idle /\ catRun.threw # "no" /\ catRun.pc \in {"delay", "failed"}) =>
        \A i \in CurrentBatch :
            /\ posts[i].needsProcessing
            /\ posts[i].processingPriority > catRun.before[i]

\* The part of C4 that the catch block does establish
C4_FailedBatchDeprioritized ==
    (catRun # Idle /\ catRun.threw # "no" /\ catRun.pc \in {"delay", "failed"}) =>
        \A i \in CurrentBatch : posts[i].processingPriority > catRun.before[i]

(***************************************************************************)
(* C15: bucket links.  The transaction of a batch links a post to a bucket *)
(* exactly for the suggestions whose confidence is above 0.6 (0.55 and 0.6 *)
(* are not linked, 0.75 is), and leaves addedToBucketByAI true exactly for *)
(* the posts that had such a suggestion.                                   *)
(***************************************************************************)
Commits == catRun # Idle /\ catRun.pc = "apply" /\ catRun'.pc = "notify"

LastNotifiedOrEpoch(p) == IF p.lastNotified = NullNum THEN 0 ELSE p.lastNotified

\* notificationWorker: the guard that skips a tick (no row, disabled, no recipients)
WorkerSkips(p) == p = NoRow \/ ~p.enabled \/ p.emails = {}

\* notificationWorker: currentTime - lastNotified < timeWindowMs
InCooldown(p, currentTime) == currentTime - LastNotifiedOrEpoch(p) < p.timeWindow

\* notificationQueue.process: findFirst({..., enabled: true}) then the emails test;
\* this processor has no elapsed-time test
ProcessSkips(p) == p = NoRow \/ ~p.enabled \/ p.emails = {}

\* notificationQueue.process("notification-job"): findFirst({..., enabled: true})
\* and if (!settings) return; neither the recipients nor the elapsed time is tested
JobSkips(p) == p = NoRow \/ ~p.enabled

\* The first await of either processor: read Preferences, take currentTime,
\* decide whether the tick goes on to evaluate thresholds.
AlertRead(w, t) ==
    /\ alertRuns[w] = Idle
    /\ LET p == preferences[t]
           stay == CASE alertImpl = "worker" -> WorkerSkips(p) \/ InCooldown(p, clock)
                     [] alertImpl = "process" -> ProcessSkips(p)
                     [] OTHER -> JobSkips(p)
       IN alertRuns' = [alertRuns EXCEPT ![w] =
              IF stay THEN Idle
              ELSE [pc |-> "evaluate", tenant |-> t, currentTime |-> clock,
                    prefs |-> p, postIds |-> {}]]
    /\ UNCHANGED <<clock, preferences, posts, alertImpl, sent, notificationHistory, alertOthers>>

\* redditPost.findMany of a tick: the tenant's posts created since windowStart.
\* The worker filters on the Preferences row's userId when it has one, the
\* Bull processor on the job's userId; both fall back to orgId.
WindowPosts(t, windowStart) ==
    {i \in PostIds :
        /\ posts[i] # NoRow
        /\ IF t.userId # NoId THEN posts[i].userId = t.userId
                              ELSE posts[i].orgId = t.orgId
        /\ posts[i].createdUtc >= windowStart}

\* post.category || "uncategorized"
CategoryOf(i) == IF posts[i].category = Null THEN "uncategorized" ELSE posts[i].category
\* post.sentimentScore || 0
ScoreOf(i) == IF posts[i].sentimentScore = NullNum THEN 0 ELSE posts[i].sentimentScore

RECURSIVE SumScore(_)
\* categoryPosts.reduce((sum, post) => sum + (post.sentimentScore || 0), 0)
SumScore(ids) ==
    IF ids = {} THEN 0
    ELSE LET i == CHOOSE x \in ids : TRUE IN ScoreOf(i) + SumScore(ids \ {i})

RECURSIVE SumComments(_)
\* categoryPosts.reduce((sum, post) => sum + post.numComments, 0)
SumComments(ids) ==
    IF ids = {} THEN 0
    ELSE LET i == CHOOSE x \in ids : TRUE
         IN posts[i].numComments + SumComments(ids \ {i})

\* checkThresholds: totalComments >= preferences.commentGrowthThreshold, the
\* comment total of the category's posts in the current window
commentGrowthExceeded(ids, p) == SumComments(ids) >= p.commentGrowthThreshold

\* checkThresholds: one category's three tests.  avgSentiment <= threshold is
\* compared as sum <= threshold * count (count > 0 for a category that exists).
CategoryTrips(ids, p) ==
    \/ Cardinality(ids) >= p.issueThreshold
    \/ SumScore(ids) <= p.sentimentThreshold * Cardinality(ids)
    \/ commentGrowthExceeded(ids, p)

\* checkThresholds(posts, preferences)
checkThresholds(ids, p) ==
    \E c \in {CategoryOf(i) : i \in ids} :
        CategoryTrips({i \in ids : CategoryOf(i) = c}, p)

\* The "notification-job" build's previous window: createdUtc in
\* [currentTime - 2 * timeWindow, currentTime - timeWindow)
PreviousPosts(t, currentTime, timeWindow) ==
    WindowPosts(t, currentTime - 2 * timeWindow) \ WindowPosts(t, currentTime - timeWindow)

\* calculateCommentGrowthRate(current, previous) >= threshold, where the rate is
\* Infinity for previous = 0 < current, 0 for both 0, else current / previous
CommentGrowthTrips(current, previous, threshold) ==
    IF previous = 0 THEN (current > 0 \/ 0 >= threshold)
    ELSE current >= threshold * previous

\* averageSentiment <= sentimentThreshold, averageSentiment being
\* (sum / currentPosts.length) || 0: 0 for an empty window
AverageSentimentTrips(ids, threshold) ==
    IF ids = {} THEN 0 <= threshold
    ELSE SumScore(ids) <= threshold * Cardinality(ids)

\* categoryTrends.some: currentCount >= issueThreshold and
\* currentCount >= previousCount * volumeThresholdMultiplier
CategoryTrendTrips(cur, prev, p) ==
    \E c \in {CategoryOf(i) : i \in cur} :
        LET currentCount == Cardinality({i \in cur : CategoryOf(i) = c})
            previousCount == Cardinality({i \in prev : CategoryOf(i) = c})
        IN /\ currentCount >= p.issueThreshold
           /\ currentCount * p.volumeThresholdMultiplier[2]
                 >= previousCount * p.volumeThresholdMultiplier[1]

\* shouldSendNotification(metrics, settings)
shouldSendNotification(cur, prev, p) ==
    \/ CommentGrowthTrips(SumComments(cur), SumComments(prev), p.commentGrowthThreshold)
    \/ AverageSentimentTrips(cur, p.sentimentThreshold)
    \/ CategoryTrendTrips(cur, prev, p)

\* Second await: fetch the window's posts and evaluate; no trigger ends the tick.
\* (The "notification-job" build also inserts a WindowMetrics row here, a table
\* that no operation of this module reads.)
AlertEvaluate(w) ==
    /\ alertRuns[w].pc = "evaluate"
    /\ LET r == alertRuns[w]
           ids == WindowPosts(r.tenant, r.currentTime - r.prefs.timeWindow)
           prev == PreviousPosts(r.tenant, r.currentTime, r.prefs.timeWindow)
           triggered == IF alertImpl = "job"
                        THEN shouldSendNotification(ids, prev, r.prefs)
                        ELSE checkThresholds(ids, r.prefs)
       IN alertRuns' = [alertRuns EXCEPT ![w] =
              IF triggered
              THEN [r EXCEPT !.pc = "send", !.postIds = ids]
              ELSE Idle]
    /\ UNCHANGED <<clock, preferences, posts, alertImpl, sent, notificationHistory, alertOthers>>

\* sendNotificationEmail: the delivery to the sink.  transporter.sendMail to
\* preferences.emails; in the "notification-job" build emailQueue.add, after
\* which that build's sendNotificationEmail goes on to write a history row.
AlertSend(w) ==
    /\ alertRuns[w].pc = "send"
    /\ Len(sent) < MaxAlerts
    /\ sent' = Append(sent, [tenant |-> alertRuns[w].tenant, at |-> clock,
                             to |-> alertRuns[w].prefs.emails])
    /\ alertRuns' = [alertRuns EXCEPT ![w].pc =
                        IF alertImpl = "job" THEN "sendHistory" ELSE "history"]
    /\ UNCHANGED <<clock, preferences, posts, alertImpl, notificationHistory, alertOthers>>

\* sendNotificationEmail of the "notification-job" build, after emailQueue.add:
\* notificationHistory.create with category "General", the posts of every
\* category trend and issueCount = the number of category trends
AlertSendHistory(w) ==
    /\ alertRuns[w].pc = "sendHistory"
    /\ LET r == alertRuns[w]
       IN notificationHistory' = Append(notificationHistory,
              [tenant |-> r.tenant, postIds |-> r.postIds, category |-> "General",
               issueCount |-> Cardinality({CategoryOf(i) : i \in r.postIds}),
               emailsSentTo |-> r.prefs.emails, sentAt |-> clock])
    /\ alertRuns' = [alertRuns EXCEPT ![w].pc = "history"]
    /\ UNCHANGED <<clock, preferences, posts, alertImpl, sent, alertOthers>>

\* The category column of the processor's history row: "all", and in the
\* "notification-job" build currentPosts[0]?.category || "uncategorized", where
\* currentPosts comes from a findMany without orderBy (any row may be first)
HistoryCategories(ids) ==
    IF alertImpl # "job" THEN {"all"}
    ELSE IF ids = {} THEN {"uncategorized"}
    ELSE {CategoryOf(i) : i \in ids}

\* notificationHistory.create in the processor, after sendNotificationEmail
AlertHistory(w) ==
    /\ alertRuns[w].pc = "history"
    /\ LET r == alertRuns[w]
       IN \E cat \in HistoryCategories(r.postIds) :
           notificationHistory' = Append(notificationHistory,
              [tenant |-> r.tenant, postIds |-> r.postIds, category |-> cat,
               issueCount |-> Cardinality(r.postIds),
               emailsSentTo |-> r.prefs.emails, sentAt |-> clock])
    /\ alertRuns' = [alertRuns EXCEPT ![w].pc = "update"]
    /\ UNCHANGED <<clock, preferences, posts, alertImpl, sent, alertOthers>>

\* preferences.update({ lastNotified: currentTime }): the time taken at the read;
\* the "notification-job" build writes new Date(), the time of the update
AlertUpdate(w) ==
    /\ alertRuns[w].pc = "update"
    /\ preferences' = [preferences EXCEPT
           ![alertRuns[w].tenant].lastNotified =
               IF alertImpl = "job" THEN clock ELSE alertRuns[w].currentTime]
    /\ alertRuns' = [alertRuns EXCEPT ![w] = Idle]
    /\ UNCHANGED <<clock, posts, alertImpl, sent, notificationHistory, alertOthers>>

\* An hour passes.
AlertHour ==
    /\ clock < MaxClock
    /\ clock' = clock + 1
    /\ UNCHANGED <<preferences, posts, alertImpl, alertRuns, sent, notificationHistory, alertOthers>>

(***************************************************************************)
(* Specification of the alerting engine                                    *)
(***************************************************************************)
\* A post as ingestion and the classifier leave it
AlertPost(id, t, cat, score, comments, created) ==
    [PostCreate(id, [author |-> "alice", permalink |-> "/r/app/1",
                     created_utc |-> created, score |-> 1, num_comments |-> comments],
                t.userId, t.orgId, created)
        EXCEPT !.category = cat, !.sentimentScore = score,
               !.needsProcessing = (cat = Null)]

AlertInit ==
    /\ clock = StartClock
    /\ alertImpl \in {"worker", "process", "job"}
    /\ \E tw \in Windows, it \in {1, 2} :
        preferences = [t \in Tenants |->
            [DefaultPrefs EXCEPT !.emails = {"ops"}, !.timeWindow = tw,
                                 !.issueThreshold = it,
                                 !.commentGrowthThreshold = 9]]
    /\ posts = [i \in PostIds |->
          CASE i = "p1" -> AlertPost(i, UserT(U1), "Bug", 2, 1, StartClock)
            [] i = "p2" -> AlertPost(i, UserT(U1), "Bug", 4, 2, StartClock + 1)
            [] OTHER    -> AlertPost(i, UserT(U1), "Feature", 3, 0, StartClock)]
    /\ alertRuns = [w \in AlertWorkers |-> Idle]
    /\ sent = <<>>
    /\ notificationHistory = <<>>
    /\ ingestRun = Idle
    /\ categories = [t \in Tenants |-> 0]
    /\ catRun = Idle
    /\ emailJobs = 0
    /\ IngestionQueueEmpty
    /\ CategorizationQueueEmpty
    /\ CommentsEmpty
    /\ NoMetricsRequest
    /\ NotificationQueueEmpty

AlertNext ==
    \/ \E w \in AlertWorkers, t \in AlertTenants : AlertRead(w, t)
    \/ \E w \in AlertWorkers : AlertEvaluate(w)
    \/ \E w \in AlertWorkers : AlertSend(w)
    \/ \E w \in AlertWorkers : AlertSendHistory(w)
    \/ \E w \in AlertWorkers : AlertHistory(w)
    \/ \E w \in AlertWorkers : AlertUpdate(w)
    \/ AlertHour

SpecAlert == AlertInit /\ [][AlertNext]_vars

(***************************************************************************)
(* C1: cooldown.  Two deliveries to the sink for one tenant are never      *)
(* closer together than the tenant's configured timeWindow.                *)
(***************************************************************************)
C1_CooldownBetweenAlerts ==
    \A i, j \in 1..Len(sent) :
        (i < j /\ sent[i].tenant = sent[j].tenant)
            => sent[j].at - sent[i].at >= preferences[sent[i].tenant].timeWindow

\* The same property of the build that runs notificationWorker (the processor
\* that has the elapsed-time test).
C1_CooldownWorkerBuild == alertImpl = "worker" => C1_CooldownBetweenAlerts

\* A tenant has been alerted and a later tick of the same tenant is evaluating.
C1_AlertedTwice ==
    \E i, j \in 1..Len(sent) : i < j /\ sent[i].tenant = sent[j].tenant

(***************************************************************************)
(* C13: one consolidated alert.  A triggered tick makes one delivery to    *)
(* the sink and writes one NotificationHistory row: rows never outnumber   *)
(* deliveries, and once every tick has finished there are as many rows as  *)
(* deliveries.                                                             *)
(***************************************************************************)
C13_OneDeliveryOneRecord ==
    /\ Len(notificationHistory) <= Len(sent)
    /\ (\A w \in AlertWorkers : alertRuns[w] = Idle)
          => Len(notificationHistory) = Len(sent)

\* The same property of the builds whose sendNotificationEmail only sends
C13_MailOnlyBuilds == alertImpl # "job" => C13_OneDeliveryOneRecord

\* A triggered tick has run to its end in a build whose send only sends
C13_TickFinished ==
    /\ alertImpl # "job"
    /\ Len(sent) > 0
    /\ \A w \in AlertWorkers : alertRuns[w] = Idle

(***************************************************************************)
(* C14: the history row of a triggered tick references only posts of the   *)
(* categories that tripped a threshold in that tick, and its category      *)
(* column names one of those categories.                                   *)
(***************************************************************************)
TrippedCategories(ids, p) ==
    {c \in {CategoryOf(i) : i \in ids} :
        CategoryTrips({i \in ids : CategoryOf(i) = c}, p)}

C14_RecordNamesTriggeringCategories ==
    [][\A w \in AlertWorkers :
         (/\ alertImpl # "job"
          /\ alertRuns[w].pc = "history"
          /\ alertRuns'[w].pc = "update")
         => LET r == alertRuns[w]
                h == notificationHistory'[Len(notificationHistory')]
                tripped == TrippedCategories(r.postIds, r.prefs)
            IN /\ \A i \in h.postIds : CategoryOf(i) \in tripped
               /\ h.category \in tripped]_vars

\* The part of C14 the code does establish: the row references posts of the
\* evaluated window only, and at least one of them is of a tripped category
C14_RecordReferencesWindow ==
    [][\A w \in AlertWorkers :
         (/\ alertImpl # "job"
          /\ alertRuns[w].pc = "history"
          /\ alertRuns'[w].pc = "update")
         => LET r == alertRuns[w]
                h == notificationHistory'[Len(notificationHistory')]
            IN /\ h.postIds = r.postIds
               /\ \E i \in h.postIds :
                     CategoryOf(i) \in TrippedCategories(r.postIds, r.prefs)]_vars

(***************************************************************************)
(* C28: the NotificationHistory row of a tick and the tenant's             *)
(* lastNotified are written together: in every state a tenant has a row    *)
(* exactly if its lastNotified has been set.                               *)
(***************************************************************************)
RowsOf(t) == {k \in 1..Len(notificationHistory) : notificationHistory[k].tenant = t}

C28_RecordAndLastNotifiedTogether ==
    \A t \in AlertTenants :
        preferences[t] # NoRow
           => (RowsOf(t) # {} <=> preferences[t].lastNotified # NullNum)

\* What does hold: lastNotified is written after the row, never before it
C28_LastNotifiedImpliesRecord ==
    \A t \in AlertTenants :
        (preferences[t] # NoRow /\ preferences[t].lastNotified # NullNum)
           => RowsOf(t) # {}

(***************************************************************************)
(* C30: a tick that evaluates its window goes on to deliver exactly when   *)
(* some category of the window trips one of the three tests (count >=      *)
(* issueThreshold, average sentiment <= sentimentThreshold, comment total  *)
(* >= commentGrowthThreshold); otherwise the tick ends there, with nothing *)
(* sent, no row written and lastNotified unchanged.                        *)
(***************************************************************************)
EvaluatesTo(w) ==
    LET r == alertRuns[w]
        ids == WindowPosts(r.tenant, r.currentTime - r.prefs.timeWindow)
    IN /\ (alertRuns'[w] # Idle) <=> (TrippedCategories(ids, r.prefs) # {})
       /\ alertRuns'[w] # Idle => alertRuns'[w].pc = "send"
       /\ sent' = sent /\ notificationHistory' = notificationHistory
       /\ preferences' = preferences

C30_TriggeredIffCategoryTrips ==
    [][\A w \in AlertWorkers :
          (alertRuns[w].pc = "evaluate" /\ alertRuns'[w] # alertRuns[w])
             => EvaluatesTo(w)]_vars

\* What does hold: the same in the builds whose processor calls checkThresholds
C30_CheckThresholdsBuilds ==
    [][\A w \in AlertWorkers :
          (alertImpl # "job" /\ alertRuns[w].pc = "evaluate"
             /\ alertRuns'[w] # alertRuns[w])
             => EvaluatesTo(w)]_vars

(***************************************************************************)
(* C31: the comment-growth trigger.  For the posts a tick evaluates, the   *)
(* trigger is the ratio of current-window to previous-window comments      *)
(* against commentGrowthThreshold when the previous window has comments,   *)
(* and the current-window comment total against the threshold when it has  *)
(* none; checkThresholds (per category) and shouldSendNotification (per    *)
(* window) both compute it so.                                             *)
(***************************************************************************)
GrowthTriggerAsSpecified(current, previous, threshold) ==
    IF previous > 0 THEN current >= threshold * previous ELSE current >= threshold

C31_OneCommentGrowthDefinition ==
    \A w \in AlertWorkers :
        alertRuns[w].pc = "evaluate" =>
            LET r == alertRuns[w]
                cur == WindowPosts(r.tenant, r.currentTime - r.prefs.timeWindow)
                prev == PreviousPosts(r.tenant, r.currentTime, r.prefs.timeWindow)
                th == r.prefs.commentGrowthThreshold
            IN /\ \A c \in {CategoryOf(i) : i \in cur} :
                     LET ids == {i \in cur : CategoryOf(i) = c}
                         before == {i \in prev : CategoryOf(i) = c}
                     IN commentGrowthExceeded(ids, r.prefs)
                          = GrowthTriggerAsSpecified(SumComments(ids), SumComments(before), th)
               /\ CommentGrowthTrips(SumComments(cur), SumComments(prev), th)
                     = GrowthTriggerAsSpecified(SumComments(cur), SumComments(prev), th)

(***************************************************************************)
(* Ticks of a tenant without an active configuration: the Preferences row  *)
(* of user u1, who owns every post, is missing, disabled or has no         *)
(* recipients.                                                             *)
(***************************************************************************)
AlertSkipInit ==
    /\ clock = StartClock
    /\ alertImpl \in {"worker", "process", "job"}
    /\ \E skipped \in {NoRow, [DefaultPrefs EXCEPT !.emails = {"ops"}, !.enabled = FALSE],
                        [DefaultPrefs EXCEPT !.emails = {}]} :
          preferences = [t \in Tenants |->
              IF t = UserT(U1)
              THEN IF skipped = NoRow THEN NoRow
                   ELSE [skipped EXCEPT !.timeWindow = 1, !.issueThreshold = 1,
                                        !.commentGrowthThreshold = 9]
              ELSE [DefaultPrefs EXCEPT !.emails = {"ops"}, !.timeWindow = 1,
                                        !.issueThreshold = 1,
                                        !.commentGrowthThreshold = 9]]
    /\ posts = [i \in PostIds |->
          CASE i = "p1" -> AlertPost(i, UserT(U1), "Bug", 2, 1, StartClock)
            [] i = "p2" -> AlertPost(i, UserT(U1), "Bug", 4, 2, StartClock + 1)
            [] OTHER    -> AlertPost(i, UserT(U1), "Feature", 3, 0, StartClock)]
    /\ alertRuns = [w \in AlertWorkers |-> Idle]
    /\ sent = <<>>
    /\ notificationHistory = <<>>
    /\ ingestRun = Idle
    /\ categories = [t \in Tenants |-> 0]
    /\ catRun = Idle
    /\ emailJobs = 0
    /\ IngestionQueueEmpty
    /\ CategorizationQueueEmpty
    /\ CommentsEmpty
    /\ NoMetricsRequest
    /\ NotificationQueueEmpty

SpecAlertSkip == AlertSkipInit /\ [][AlertNext]_vars

(***************************************************************************)
(* C29: a tick for a tenant whose Preferences row is missing, disabled or  *)
(* without recipients is a no-op: nothing is delivered for the tenant, no  *)
(* NotificationHistory row is written for it, its lastNotified stays as it *)
(* was, and no post changes.                                               *)
(***************************************************************************)
NoActiveConfiguration(row) == row = NoRow \/ ~row.enabled \/ row.emails = {}

C29_SkippedTickIsNoOp ==
    \A t \in AlertTenants :
        NoActiveConfiguration(preferences[t])
           => /\ \A k \in 1..Len(sent) : sent[k].tenant # t
              /\ RowsOf(t) = {}
              /\ preferences[t] # NoRow => preferences[t].lastNotified = NullNum

\* What does hold: the same in the builds of notificationWorker and of the
\* unnamed notificationQueue.process, and no tick changes a post
C29_SkipInMailBuilds == alertImpl # "job" => C29_SkippedTickIsNoOp

C29_PostsUntouched == [][posts' = posts]_vars

(***************************************************************************)
(* Ingestion queue lifecycle: POST /start, POST /stop, the Bull queue      *)
(* "ingestion-queue" and its "failed" listener.                            *)
(*                                                                         *)
(* startIngestion calls queue.add(data, opts) without a job name, so Bull  *)
(* names the job "__default__"; a repeatable job is listed by              *)
(* getRepeatableJobs as { key, name, id, cron } with                       *)
(* key = name:jobId:endDate:tz:cron.  Every job instance of the queue is   *)
(* created from a repeatable and carries opts.repeat.  The queue is        *)
(* processed by one process with Bull's default concurrency of 1, and      *)
(* defaultJobOptions remove a job when it completes or fails.              *)
(***************************************************************************)
DEFAULT_JOB_NAME == <<"_", "_", "d", "e", "f", "a", "u", "l", "t", "_", "_">>

\* ingestionSchedule values
Crons == {"hourly"}

\* Bodies of POST /start and POST /stop that pass validation: a personal
\* request carries userId only, an organisation request (orgRole org:admin)
\* carries orgId and the userId of the signed-in admin who sends it.
IngestRequests ==
    {[userId |-> U1, orgId |-> NoId], [userId |-> U12, orgId |-> NoId],
     [userId |-> U1, orgId |-> O1]}

\* isOrg ? { orgId } : { userId }
ReqTenant(req) == IF req.orgId # NoId THEN OrgT(req.orgId) ELSE UserT(req.userId)

\* jobId: `ingestion-${data.orgId || "no-org"}-${data.userId}`
IngestionJobId(data) ==
    <<"ingestion", IF data.orgId # NoId THEN data.orgId ELSE <<"n", "o", "-", "o", "r", "g">>,
      data.userId>>

\* The entry Bull keeps for a repeatable job
RepeatableJob(data, cron) ==
    [name |-> DEFAULT_JOB_NAME, id |-> IngestionJobId(data), cron |-> cron]

\* A job instance of a repeatable
IngestionJob(rep, data, state) == [repeat |-> rep, data |-> data, state |-> state]

\* Positions of GET /master/kill-all between its awaits, and the request it
\* carries: no tenant id
KillPcs == {"killActive", "killWaiting", "killDelayed", "killPrefs"}
KillAllRequest == [userId |-> NoId, orgId |-> NoId]

\* prisma.preferences.upsert of POST /start
StartUpsert(row, cron) ==
    IF row = NoRow
    THEN [DefaultPrefs EXCEPT !.ingestionSchedule = cron, !.ingestionActive = TRUE]
    ELSE [row EXCEPT !.ingestionSchedule = cron, !.ingestionActive = TRUE]

\* POST /start: upsert the tenant's Preferences, then startIngestion, whose
\* queue.add registers the repeatable and its next delayed instance.
StartIngestion(req, cron) ==
    /\ preferences' = [preferences EXCEPT ![ReqTenant(req)] = StartUpsert(@, cron)]
    /\ ingestionRepeat' = ingestionRepeat \cup {RepeatableJob(req, cron)}
    /\ ingestionJobs' = ingestionJobs
                          \cup {IngestionJob(RepeatableJob(req, cron), req, "delayed")}
    /\ stopIngestion' =
          IF /\ stopIngestion # Idle
             /\ \/ stopIngestion.pc \in KillPcs
                \/ ReqTenant(stopIngestion.req) = ReqTenant(req)
          THEN [stopIngestion EXCEPT !.restarted = TRUE]
          ELSE stopIngestion
    /\ failureStopped' = failureStopped \ {ReqTenant(req)}
    /\ UNCHANGED <<failedEvents, ingestJobOthers>>

\* The delay of a repeat instance elapses
RepeatDue(j) ==
    /\ j \in ingestionJobs /\ j.state = "delayed"
    /\ ingestionJobs' = (ingestionJobs \ {j}) \cup {[j EXCEPT !.state = "waiting"]}
    /\ UNCHANGED <<preferences, ingestionRepeat, failedEvents, stopIngestion, failureStopped, ingestJobOthers>>

\* The worker takes a waiting job; Bull schedules the next instance of its
\* repeatable at that moment, provided the repeatable is still registered.
ProcessJob(j) ==
    /\ j \in ingestionJobs /\ j.state = "waiting"
    /\ \A a \in ingestionJobs : a.state # "active"
    /\ ingestionJobs' =
          (ingestionJobs \ {j}) \cup {[j EXCEPT !.state = "active"]}
             \cup (IF j.repeat \in ingestionRepeat
                   THEN {[j EXCEPT !.state = "delayed"]} ELSE {})
    /\ UNCHANGED <<preferences, ingestionRepeat, failedEvents, stopIngestion, failureStopped, ingestJobOthers>>

\* The processor returns { success: true }
JobCompletes(j) ==
    /\ j \in ingestionJobs /\ j.state = "active"
    /\ ingestionJobs' = ingestionJobs \ {j}
    /\ UNCHANGED <<preferences, ingestionRepeat, failedEvents, stopIngestion, failureStopped, ingestJobOthers>>

\* The processor rethrows: the job fails and "failed" is emitted
JobThrows(j) ==
    /\ j \in ingestionJobs /\ j.state = "active"
    /\ ingestionJobs' = ingestionJobs \ {j}
    /\ failedEvents' = failedEvents \cup {j.data}
    /\ UNCHANGED <<preferences, ingestionRepeat, stopIngestion, failureStopped, ingestJobOthers>>

\* updateMany({ where: { userId, orgId: orgId || null } }): the rows it matches
FailedWhere(data) ==
    {t \in Tenants : preferences[t] # NoRow /\ t.userId = data.userId /\ t.orgId = data.orgId}

\* ingestionQueue.on("failed")
OnFailed(data) ==
    /\ data \in failedEvents
    /\ failedEvents' = failedEvents \ {data}
    /\ preferences' = [t \in Tenants |->
          IF t \in FailedWhere(data)
          THEN [preferences[t] EXCEPT !.ingestionActive = FALSE]
          ELSE preferences[t]]
    /\ failureStopped' = failureStopped \cup FailedWhere(data)
    /\ UNCHANGED <<ingestionRepeat, ingestionJobs, stopIngestion, ingestJobOthers>>

\* (userId && jobName.includes(userId)) || (orgId && jobName.includes(orgId))
NameMatches(req, jobName) ==
    \/ req.userId # NoId /\ Includes(jobName, req.userId)
    \/ req.orgId # NoId /\ Includes(jobName, req.orgId)

\* (userId && jobData.userId === userId) || (orgId && jobData.orgId === orgId)
DataMatches(req, jobData) ==
    \/ req.userId # NoId /\ jobData.userId = req.userId
    \/ req.orgId # NoId /\ jobData.orgId = req.orgId

\* POST /stop, first loop: getRepeatableJobs, then for every entry whose name
\* matches, removeJobScheduler (not a method of a Bull queue: it throws) and
\* the fallback removeRepeatableByKey, which also drops the entry's delayed
\* instance.
StopRemoveRepeatables(req) ==
    /\ stopIngestion = Idle
    /\ LET matched == {r \in ingestionRepeat : NameMatches(req, r.name)}
       IN /\ ingestionRepeat' = ingestionRepeat \ matched
          /\ ingestionJobs' = {j \in ingestionJobs :
                                  ~(j.repeat \in matched /\ j.state = "delayed")}
    /\ stopIngestion' = [pc |-> "sweep", req |-> req, restarted |-> FALSE]
    /\ UNCHANGED <<preferences, failedEvents, failureStopped, ingestJobOthers>>

\* POST /stop, second loop over getActive + getWaiting + getDelayed: an active
\* job is moved to failed (and removed, removeOnFail), any other job is
\* removed only if it has no opts.repeat.
StopSweep ==
    /\ stopIngestion # Idle /\ stopIngestion.pc = "sweep"
    /\ ingestionJobs' = {j \in ingestionJobs :
                            ~(DataMatches(stopIngestion.req, j.data) /\ j.state = "active")}
    /\ stopIngestion' = [stopIngestion EXCEPT !.pc = "prefs"]
    /\ UNCHANGED <<preferences, ingestionRepeat, failedEvents, failureStopped, ingestJobOthers>>

\* POST /stop, last step: preferences.update, which rejects when the tenant has
\* no row (the route then answers 500).
StopUpdatePreferences ==
    /\ stopIngestion # Idle /\ stopIngestion.pc = "prefs"
    /\ LET t == ReqTenant(stopIngestion.req)
       IN preferences' =
             IF preferences[t] = NoRow THEN preferences
             ELSE [preferences EXCEPT ![t].ingestionActive = FALSE]
    /\ stopIngestion' = Idle
    /\ UNCHANGED <<ingestionRepeat, ingestionJobs, failedEvents, failureStopped, ingestJobOthers>>

\* GET /master/kill-all, first loop: getRepeatableJobs, then for every entry
\* removeJobScheduler (it throws, as above) and the fallback
\* removeRepeatableByKey, which also drops the entry's delayed instance.
KillRemoveRepeatables ==
    /\ stopIngestion = Idle
    /\ ingestionRepeat' = {}
    /\ ingestionJobs' = {j \in ingestionJobs :
                            ~(j.repeat \in ingestionRepeat /\ j.state = "delayed")}
    /\ stopIngestion' = [pc |-> "killActive", req |-> KillAllRequest, restarted |-> FALSE]
    /\ UNCHANGED <<preferences, failedEvents, failureStopped, ingestJobOthers>>

\* kill-all, getActive: job.remove() removes the job, or rejects because the
\* worker holds the job's lock, and then obliterate({ force: true }) empties
\* the queue, repeatable entries included.
KillActive ==
    /\ stopIngestion # Idle /\ stopIngestion.pc = "killActive"
    /\ IF \E j \in ingestionJobs : j.state = "active"
       THEN \/ /\ ingestionJobs' = {j \in ingestionJobs : j.state # "active"}
               /\ ingestionRepeat' = ingestionRepeat
            \/ /\ ingestionJobs' = {}
               /\ ingestionRepeat' = {}
       ELSE UNCHANGED <<ingestionJobs, ingestionRepeat>>
    /\ stopIngestion' = [stopIngestion EXCEPT !.pc = "killWaiting"]
    /\ UNCHANGED <<preferences, failedEvents, failureStopped, ingestJobOthers>>

\* kill-all, getWaiting: every waiting job is removed
KillWaiting ==
    /\ stopIngestion # Idle /\ stopIngestion.pc = "killWaiting"
    /\ ingestionJobs' = {j \in ingestionJobs : j.state # "waiting"}
    /\ stopIngestion' = [stopIngestion EXCEPT !.pc = "killDelayed"]
    /\ UNCHANGED <<preferences, ingestionRepeat, failedEvents, failureStopped, ingestJobOthers>>

\* kill-all, getDelayed: every delayed job is removed
KillDelayed ==
    /\ stopIngestion # Idle /\ stopIngestion.pc = "killDelayed"
    /\ ingestionJobs' = {j \in ingestionJobs : j.state # "delayed"}
    /\ stopIngestion' = [stopIngestion EXCEPT !.pc = "killPrefs"]
    /\ UNCHANGED <<preferences, ingestionRepeat, failedEvents, failureStopped, ingestJobOthers>>

\* kill-all, last step: updateMany({ where: { ingestionActive: true } })
KillUpdatePreferences ==
    /\ stopIngestion # Idle /\ stopIngestion.pc = "killPrefs"
    /\ preferences' = [t \in Tenants |->
          IF preferences[t] # NoRow /\ preferences[t].ingestionActive
          THEN [preferences[t] EXCEPT !.ingestionActive = FALSE]
          ELSE preferences[t]]
    /\ stopIngestion' = Idle
    /\ UNCHANGED <<ingestionRepeat, ingestionJobs, failedEvents, failureStopped, ingestJobOthers>>

IngestJobsInit ==
    /\ clock = StartClock
    /\ preferences = [t \in Tenants |-> NoRow]
    /\ posts = [i \in PostIds |-> NoRow]
    /\ alertImpl = "worker"
    /\ alertRuns = [w \in AlertWorkers |-> Idle]
    /\ sent = <<>>
    /\ notificationHistory = <<>>
    /\ ingestRun = Idle
    /\ categories = [t \in Tenants |-> 0]
    /\ catRun = Idle
    /\ emailJobs = 0
    /\ IngestionQueueEmpty
    /\ CategorizationQueueEmpty
    /\ CommentsEmpty
    /\ NoMetricsRequest
    /\ NotificationQueueEmpty

IngestJobsNext ==
    \/ \E req \in IngestRequests, cron \in Crons : StartIngestion(req, cron)
    \/ \E j \in ingestionJobs : RepeatDue(j)
    \/ \E j \in ingestionJobs : ProcessJob(j)
    \/ \E j \in ingestionJobs : JobCompletes(j)
    \/ \E j \in ingestionJobs : JobThrows(j)
    \/ \E data \in failedEvents : OnFailed(data)
    \/ \E req \in IngestRequests : StopRemoveRepeatables(req)
    \/ StopSweep
    \/ StopUpdatePreferences
    \/ KillRemoveRepeatables
    \/ KillActive
    \/ KillWaiting
    \/ KillDelayed
    \/ KillUpdatePreferences

SpecIngestJobs == IngestJobsInit /\ [][IngestJobsNext]_vars

\* The tenant a job, a repeatable or a request belongs to
JobTenant(data) == ReqTenant(data)
RepeatablesOf(t, reps) == {r \in reps : \E d \in IngestRequests :
                              JobTenant(d) = t /\ r.id = IngestionJobId(d)}
JobsOf(t, jobs) == {j \in jobs : JobTenant(j.data) = t}

\* A step of POST /stop, and the tenant the request names
StopStep ==
    /\ stopIngestion'.pc # stopIngestion.pc
    /\ stopIngestion.pc \notin KillPcs /\ stopIngestion'.pc \notin KillPcs
StoppingTenant ==
    ReqTenant(IF stopIngestion # Idle THEN stopIngestion.req ELSE stopIngestion'.req)

(***************************************************************************)
(* C5: stopping ingestion for tenant T leaves every other tenant's         *)
(* repeatable schedule, its active / waiting / delayed jobs and its        *)
(* ingestionActive flag as they were.                                      *)
(***************************************************************************)
C5_StopLeavesOtherTenantsAlone ==
    [][StopStep =>
         \A t \in Tenants \ {StoppingTenant} :
            /\ RepeatablesOf(t, ingestionRepeat') = RepeatablesOf(t, ingestionRepeat)
            /\ JobsOf(t, ingestionJobs') = JobsOf(t, ingestionJobs)
            /\ preferences'[t] = preferences[t]]_vars

\* The part of C5 about ids that are substrings of one another: a personal
\* stop by one user leaves the other users' schedules and jobs alone.
C5_StopLeavesOtherUsersAlone ==
    [][(StopStep /\ StoppingTenant.orgId = NoId) =>
         \A u \in UserIds :
            UserT(u) # StoppingTenant =>
               /\ RepeatablesOf(UserT(u), ingestionRepeat')
                     = RepeatablesOf(UserT(u), ingestionRepeat)
               /\ JobsOf(UserT(u), ingestionJobs') = JobsOf(UserT(u), ingestionJobs)
               /\ preferences'[UserT(u)] = preferences[UserT(u)]]_vars

(***************************************************************************)
(* C6: when a stop for tenant T completes successfully, T has no           *)
(* repeatable schedule and no waiting or delayed job left.                 *)
(***************************************************************************)
StopSucceeds ==
    /\ stopIngestion # Idle /\ stopIngestion.pc = "prefs" /\ stopIngestion' = Idle
    /\ ~stopIngestion.restarted
    /\ preferences[ReqTenant(stopIngestion.req)] # NoRow

C6_StopLeavesNothingScheduled ==
    [][StopSucceeds =>
         LET t == ReqTenant(stopIngestion.req)
         IN /\ RepeatablesOf(t, ingestionRepeat') = {}
            /\ \A j \in JobsOf(t, ingestionJobs') : j.state \notin {"waiting", "delayed"}]_vars

\* The ordering part of C6: the flag is written by the last step only
C6_FlagWrittenLast ==
    [][(StopStep /\ stopIngestion' # Idle) => preferences' = preferences]_vars

\* The active-job part of C6: after the sweep the tenant has no active job
C6_ActiveJobsFailed ==
    [][(stopIngestion # Idle /\ stopIngestion.pc = "sweep" /\ StopStep) =>
         \A j \in JobsOf(ReqTenant(stopIngestion.req), ingestionJobs') :
            j.state # "active"]_vars

(***************************************************************************)
(* C9: once the "failed" listener has run for a job of tenant T, T's       *)
(* ingestionActive is false.                                               *)
(***************************************************************************)
C9_FailureDisablesIngestion ==
    [][\A data \in failedEvents :
          failedEvents' = failedEvents \ {data} =>
             ~preferences'[JobTenant(data)].ingestionActive]_vars

\* The part of C9 about other tenants: the listener changes no other row
C9_FailureLeavesOthersAlone ==
    [][\A data \in failedEvents :
          failedEvents' = failedEvents \ {data} =>
             \A t \in Tenants \ {JobTenant(data)} : preferences'[t] = preferences[t]]_vars

(***************************************************************************)
(* C20: after the "failed" listener has cleared ingestionActive for tenant *)
(* T, no fetch job of T becomes active until T starts ingestion again.     *)
(***************************************************************************)
RunStartsFor(t) ==
    \E j \in ingestionJobs :
        /\ j.state = "waiting"
        /\ JobTenant(j.data) = t
        /\ [j EXCEPT !.state = "active"] \in ingestionJobs' \ ingestionJobs
        /\ j \notin ingestionJobs'

C20_NoRunAfterFailure ==
    [][\A t \in Tenants : RunStartsFor(t) => t \notin failureStopped]_vars

\* What the listener does establish: while T is stopped by a failure its
\* ingestionActive stays false
C20_StoppedMeansInactive ==
    \A t \in failureStopped : ~preferences[t].ingestionActive

(***************************************************************************)
(* C19: kill-all.  When a run of GET /master/kill-all of the ingestion     *)
(* routes ends, the queue has no repeatable entry and no active, waiting   *)
(* or delayed job, and no Preferences row has ingestionActive set; a run   *)
(* that starts in such a state changes nothing.                            *)
(***************************************************************************)
KillStep ==
    /\ stopIngestion'.pc # stopIngestion.pc
    /\ stopIngestion.pc \in KillPcs \/ stopIngestion'.pc \in KillPcs

KillEnds ==
    /\ stopIngestion # Idle /\ stopIngestion.pc = "killPrefs" /\ stopIngestion' = Idle
    /\ ~stopIngestion.restarted

NothingScheduled(reps, jobs, prefs) ==
    /\ reps = {}
    /\ jobs = {}
    /\ \A t \in Tenants : prefs[t] # NoRow => ~prefs[t].ingestionActive

C19_KillAllLeavesNothing ==
    [][KillEnds => NothingScheduled(ingestionRepeat', ingestionJobs', preferences')]_vars

C19_KillAllIdempotent ==
    [][(KillStep /\ NothingScheduled(ingestionRepeat, ingestionJobs, preferences))
          => /\ ingestionRepeat' = ingestionRepeat
             /\ ingestionJobs' = ingestionJobs
             /\ preferences' = preferences]_vars

\* The part of C19 about schedules and flags: a run that ends leaves no
\* repeatable entry and no ingestionActive flag
C19_KillAllClearsSchedulesAndFlags ==
    [][KillEnds =>
         /\ ingestionRepeat' = {}
         /\ \A t \in Tenants : preferences'[t] # NoRow => ~preferences'[t].ingestionActive]_vars

(***************************************************************************)
(* Rescheduling: POST /start repeated for one organisation, by either of   *)
(* two of its admins and with either of two cron strings, while the worker *)
(* processes the instances.  Bull keys a repeatable by                     *)
(* name:jobId:endDate:tz:cron, and startIngestion builds the jobId from    *)
(* the organisation id and the id of the admin who sends the request.      *)
(***************************************************************************)
RescheduleCrons == {"hourly", "daily"}

RescheduleRequests ==
    {[userId |-> U1, orgId |-> O1], [userId |-> U12, orgId |-> O1]}

RescheduleNext ==
    \/ \E req \in RescheduleRequests, cron \in RescheduleCrons : StartIngestion(req, cron)
    \/ \E j \in ingestionJobs : RepeatDue(j)
    \/ \E j \in ingestionJobs : ProcessJob(j)
    \/ \E j \in ingestionJobs : JobCompletes(j)

SpecReschedule == IngestJobsInit /\ [][RescheduleNext]_vars

\* The repeatables registered by requests of tenant t
SchedulesOfTenant(t) ==
    {r \in ingestionRepeat :
        \E d \in RescheduleRequests : ReqTenant(d) = t /\ r.id = IngestionJobId(d)}

(***************************************************************************)
(* C22: after any sequence of start-ingestion requests for a tenant there  *)
(* is exactly one recurring fetch schedule of the tenant, and its cron     *)
(* string is the one of the latest request, which is also the tenant's     *)
(* Preferences.ingestionSchedule.                                          *)
(***************************************************************************)
C22_StartReplacesSchedule ==
    \A t \in Tenants :
        preferences[t] # NoRow
           => \E r \in ingestionRepeat :
                 /\ SchedulesOfTenant(t) = {r}
                 /\ r.cron = preferences[t].ingestionSchedule

\* What does hold: the latest request's cron, which POST /start stores in
\* Preferences, is the cron of one of the tenant's schedules.
C22_LatestCronScheduled ==
    \A t \in Tenants :
        preferences[t] # NoRow
           => \E r \in SchedulesOfTenant(t) : r.cron = preferences[t].ingestionSchedule

(***************************************************************************)
(* Categorization queue lifecycle: startCategorization, the BullMQ queue   *)
(* "categorization-queue", its workers and the worker's "failed" listener. *)
(*                                                                         *)
(* Every process started with ENABLE_QUEUE_WORKERS=true constructs a       *)
(* Worker with concurrency 1; the model runs two such processes.  A job    *)
(* scheduler is listed with the id it was added under (the jobId option),  *)
(* the reading of getJobSchedulers under which the includes(jobKey) test   *)
(* of startCategorization can succeed at all.  The processor itself is the *)
(* batch runner above; here a run only completes or throws.                *)
(***************************************************************************)
MaxCatInstances == 2    \* job instances the schedulers create in a behaviour

CatWorkers == {"cw1", "cw2"}
CAT_ATTEMPTS == 3

\* (targetId, isOrg) pairs of POST /start-categorization
CatTargets ==
    {[targetId |-> U1, isOrg |-> FALSE], [targetId |-> U12, isOrg |-> FALSE],
     [targetId |-> O1, isOrg |-> TRUE]}

\* where: isOrg ? { orgId: targetId } : { userId: targetId }
TargetTenant(target) ==
    IF target.isOrg THEN OrgT(target.targetId) ELSE UserT(target.targetId)

\* `categorization:${isOrg ? "org" : "user"}:${targetId}`
getJobKey(target) ==
    <<"categorization", ":", IF target.isOrg THEN "org" ELSE "user", ":">>
        \o target.targetId

\* Date.now() as two overlapping calls read it: the same millisecond or not
Stamps == {"t1", "t2"}

\* jobId: `${jobKey}:${Date.now()}`
CatJobId(target, now) == getJobKey(target) \o <<":", now>>

\* scheduler.name === "categorization-job" && scheduler.id &&
\* scheduler.id.includes(jobKey)
ExistingScheduler(target) ==
    \E sch \in catSchedulers : Includes(sch.id, getJobKey(target))

\* prisma.preferences.upsert of POST /start-categorization
CatUpsert(row) ==
    IF row = NoRow THEN [DefaultPrefs EXCEPT !.triggerCategorization = TRUE]
    ELSE [row EXCEPT !.triggerCategorization = TRUE]

\* A job instance as the scheduler creates it (jobOptions: attempts 3)
CatJob(n, sch) ==
    [n |-> n, scheduler |-> sch.id, data |-> sch.data, state |-> "delayed",
     attemptsMade |-> 0, attempts |-> CAT_ATTEMPTS, worker |-> Null]

\* POST /start-categorization up to the await of getJobSchedulers: the
\* preferences upsert, then the existence test of startCategorization.
\* A caller that finds a scheduler returns already_running.
StartCategorizationCheck(c, target) ==
    /\ catStart[c] = Idle
    /\ preferences' = [preferences EXCEPT ![TargetTenant(target)] = CatUpsert(@)]
    /\ catStart' = [catStart EXCEPT ![c] =
          IF ExistingScheduler(target) THEN Idle
          ELSE [pc |-> "add", target |-> target]]
    /\ UNCHANGED <<clock, catSchedulers, catJobs, catSpawned, catJobOthers>>

\* startCategorization, categorizationQueue.add: registers the scheduler under
\* the jobId built from Date.now() and creates its first instance.  Two adds
\* with the same jobId (the same tenant in the same millisecond) are one
\* scheduler.
StartCategorizationAdd(c, now) ==
    /\ catStart[c] # Idle
    /\ LET sch == [id |-> CatJobId(catStart[c].target, now),
                   data |-> catStart[c].target]
       IN IF sch \in catSchedulers
          THEN UNCHANGED <<catSchedulers, catJobs, catSpawned>>
          ELSE /\ catSpawned < MaxCatInstances
               /\ catSchedulers' = catSchedulers \cup {sch}
               /\ catJobs' = catJobs \cup {CatJob(catSpawned + 1, sch)}
               /\ catSpawned' = catSpawned + 1
    /\ catStart' = [catStart EXCEPT ![c] = Idle]
    /\ UNCHANGED <<clock, preferences, catJobOthers>>

\* The delay of a job (the repeat interval, or the backoff of a retry) has
\* elapsed and worker w, which runs one job at a time, takes it; until a
\* worker is free a job that is due stays where it is.  On the first attempt
\* of an instance BullMQ creates the next instance of its scheduler if the
\* scheduler is still registered.
CatJobTake(w, j) ==
    /\ j \in catJobs /\ j.state = "delayed"
    /\ \A a \in catJobs : ~(a.state = "active" /\ a.worker = w)
    /\ LET next == j.attemptsMade = 0 /\ catSpawned < MaxCatInstances
                     /\ \E sch \in catSchedulers : sch.id = j.scheduler
       IN /\ catJobs' = (catJobs \ {j})
                \cup {[j EXCEPT !.state = "active", !.worker = w]}
                \cup (IF next
                      THEN {CatJob(catSpawned + 1, [id |-> j.scheduler, data |-> j.data])}
                      ELSE {})
          /\ catSpawned' = IF next THEN catSpawned + 1 ELSE catSpawned
    /\ UNCHANGED <<clock, preferences, catSchedulers, catStart, catJobOthers>>

\* The processor returns (removeOnComplete: true)
CatJobCompleted(j) ==
    /\ j \in catJobs /\ j.state = "active"
    /\ catJobs' = catJobs \ {j}
    /\ UNCHANGED <<clock, preferences, catSchedulers, catSpawned, catStart, catJobOthers>>

\* BullMQ's decision after a failed attempt: retry while attempts remain
RetryAfter(attemptsMade, attempts) == attemptsMade < attempts

\* A listener that disables the tenant on any failed attempt
MaxAttemptsReached_AnyFailure(job) == job.attemptsMade >= 1

\* job.attemptsMade >= job.opts.attempts
MaxAttemptsReached(job) == job.attemptsMade >= job.attempts

\* categorizationWorker.on("failed"): what the listener leaves in Preferences
OnCategorizationFailed(job) ==
    IF MaxAttemptsReached(job) /\ preferences[TargetTenant(job.data)] # NoRow
    THEN [preferences EXCEPT ![TargetTenant(job.data)].triggerCategorization = FALSE]
    ELSE preferences

\* The processor throws: the attempt is counted, the job goes back to delayed
\* (exponential backoff) or to failed (removeOnFail: false), and the worker
\* emits "failed" with the job, which runs the listener.
CatJobFailed(j) ==
    /\ j \in catJobs /\ j.state = "active"
    /\ LET made == j.attemptsMade + 1
           after == [j EXCEPT !.attemptsMade = made, !.worker = Null,
                              !.state = IF RetryAfter(made, j.attempts)
                                        THEN "delayed" ELSE "failed"]
       IN /\ catJobs' = (catJobs \ {j}) \cup {after}
          /\ preferences' = OnCategorizationFailed(after)
    /\ UNCHANGED <<clock, catSchedulers, catSpawned, catStart, catJobOthers>>

CatJobsInit ==
    /\ clock = StartClock
    /\ preferences = [t \in Tenants |-> NoRow]
    /\ posts = [i \in PostIds |-> NoRow]
    /\ alertImpl = "worker"
    /\ alertRuns = [w \in AlertWorkers |-> Idle]
    /\ sent = <<>>
    /\ notificationHistory = <<>>
    /\ ingestRun = Idle
    /\ categories = [t \in Tenants |-> 0]
    /\ catRun = Idle
    /\ emailJobs = 0
    /\ IngestionQueueEmpty
    /\ CategorizationQueueEmpty
    /\ CommentsEmpty
    /\ NoMetricsRequest
    /\ NotificationQueueEmpty

CatJobsNext ==
    \/ \E c \in CatCallers, target \in CatTargets : StartCategorizationCheck(c, target)
    \/ \E c \in CatCallers, now \in Stamps : StartCategorizationAdd(c, now)
    \/ \E w \in CatWorkers, j \in catJobs : CatJobTake(w, j)
    \/ \E j \in catJobs : CatJobCompleted(j)
    \/ \E j \in catJobs : CatJobFailed(j)

SpecCatJobs == CatJobsInit /\ [][CatJobsNext]_vars

SchedulersOf(target) == {sch \in catSchedulers : sch.data = target}
ActiveRunsOf(target) == {j \in catJobs : j.state = "active" /\ j.data = target}

(***************************************************************************)
(* C7: each tenant has at most one recurring classification schedule       *)
(* registered, whatever the sequence or interleaving of                    *)
(* startCategorization calls.                                              *)
(***************************************************************************)
C7_OneSchedulePerTenant ==
    \A target \in CatTargets : Cardinality(SchedulersOf(target)) <= 1

\* The sequential part of C7: a call that finds a schedule of its own tenant
\* returns already_running and goes no further.
C7_AlreadyRunning ==
    [][\A c \in CatCallers :
          (catStart[c] = Idle /\ catStart'[c] # Idle)
             => SchedulersOf(catStart'[c].target) = {}]_vars

(***************************************************************************)
(* C8: at no time are two classification runs of the same tenant active.   *)
(***************************************************************************)
C8_OneActiveRunPerTenant ==
    \A target \in CatTargets : Cardinality(ActiveRunsOf(target)) <= 1

\* The same with respect to one worker: a worker never runs two jobs at once
C8_OneActiveRunPerWorker ==
    \A w \in CatWorkers :
        Cardinality({j \in catJobs : j.state = "active" /\ j.worker = w}) <= 1

CatRunStartsFor(target) ==
    \E j \in catJobs, w \in CatWorkers :
        /\ j.state = "delayed" /\ j.data = target
        /\ [j EXCEPT !.state = "active", !.worker = w] \in catJobs' \ catJobs

C21_NoRunAfterDisable ==
    [][\A target \in CatTargets :
          CatRunStartsFor(target)
             => preferences[TargetTenant(target)].triggerCategorization]_vars

\* What does hold: the instance that exhausted its attempts is not run again
C21_ExhaustedInstanceStaysFailed ==
    [][\A j \in catJobs :
          j.state = "failed" => j \in catJobs']_vars

(***************************************************************************)
(* C39: startCategorization for a tenant returns already_running only when *)
(* a recurring classification schedule of that tenant exists; a schedule   *)
(* of another tenant never blocks the start, also when one tenant's id is  *)
(* a prefix or a substring of the other's.                                 *)
(***************************************************************************)
\* The step is a POST /start-categorization of the target that wrote the
\* tenant's Preferences row and returned already_running
AlreadyRunningFor(target) ==
    /\ preferences'[TargetTenant(target)] # preferences[TargetTenant(target)]
    /\ preferences'[TargetTenant(target)] = CatUpsert(preferences[TargetTenant(target)])
    /\ UNCHANGED <<catStart, catSchedulers, catJobs>>

C39_BlockedOnlyByOwnSchedule ==
    [][\A target \in CatTargets :
          AlreadyRunningFor(target) => SchedulersOf(target) # {}]_vars

\* What does hold: a start is blocked only by a schedule whose id contains the
\* target's job key, so a target whose key no other key contains is blocked
\* only by its own schedule
C39_BlockedByIncludedKey ==
    [][\A target \in CatTargets :
          AlreadyRunningFor(target) =>
              /\ ExistingScheduler(target)
              /\ (\A other \in CatTargets \ {target} :
                     ~Includes(getJobKey(other), getJobKey(target)))
                    => SchedulersOf(target) # {}]_vars

(***************************************************************************)
(* C11: a categorization run that starts for a tenant with no configured   *)
(* category marks every pending post of the tenant category = product =    *)
(* "Noise" with needsProcessing false, never invokes the classifier, ends  *)
(* successfully, and leaves the posts of other tenants as they were.       *)
(***************************************************************************)
RunStarts == catRun' # catRun /\ (catRun = Idle \/ catRun.pc \in {"completed", "failed"})

BatchStarts == catRun'.pc = "invoke" /\ (catRun = Idle \/ catRun.pc # "invoke")

C26_AbortOnThreeConsecutiveFailures ==
    (catRun # Idle /\ catRun.pc \in {"delay", "completed", "failed"})
       => (catRun.pc = "failed" <=> catRun.consecutive >= 3)

\* What does hold: the run aborts exactly when 3 batches of the run have
\* failed, consecutive or not.
C26_AbortOnThirdFailure ==
    (catRun # Idle /\ catRun.pc \in {"delay", "completed", "failed"})
       => (catRun.pc = "failed" <=> catRun.errorCount >= MAX_BATCH_ERRORS)

(***************************************************************************)
(* C27: the updates of a batch are applied all or none.  The step that     *)
(* runs the transaction either writes the result of every item the         *)
(* classifier returned, or leaves the table as it was; no other step of a  *)
(* run marks a post classified; and the next batch is sent to the          *)
(* classifier only after the batch in hand has ended.                      *)
(***************************************************************************)
C27_BatchAppliedAllOrNothing ==
    [][/\ (catRun # Idle /\ catRun.pc = "apply") =>
             \/ /\ catRun'.pc = "notify"
                /\ \A item \in catRun.results :
                      /\ ~posts'[item.id].needsProcessing
                      /\ posts'[item.id].category = item.category
                      /\ posts'[item.id].sentimentScore = item.sentimentScore
                /\ \A i \in DOMAIN posts :
                      (\A item \in catRun.results : item.id # i) => posts'[i] = posts[i]
             \/ /\ catRun'.pc = "catch"
                /\ posts' = posts
       /\ (\E i \in DOMAIN posts : posts'[i].needsProcessing # posts[i].needsProcessing)
             => (RunStarts \/ catRun.pc = "apply")
       /\ (BatchStarts /\ ~RunStarts) => catRun.pc = "delay"]_vars

\* A transaction with several updates has committed and the batch after it
\* has not been sent yet
C27_BatchCommitted ==
    /\ catRun # Idle /\ catRun.pc = "notify"
    /\ Cardinality(catRun.results) >= 2
    /\ \A item \in catRun.results : ~posts[item.id].needsProcessing
    /\ catRun.i + BATCH_SIZE < Len(catRun.list)

(***************************************************************************)
(* C35: the transaction of a batch changes only posts of that batch,       *)
(* whatever ids the classifier's results name: every post outside the      *)
(* batch, another tenant's posts among them, is the same row after the     *)
(* commit as before it.                                                    *)
(***************************************************************************)
C35_OnlyBatchMembersModified ==
    [][Commits => \A i \in DOMAIN posts \ CurrentBatch : posts'[i] = posts[i]]_vars

\* What does hold: the rows the commit changes are rows the results name
C35_OnlyNamedRowsModified ==
    [][Commits =>
         \A i \in DOMAIN posts :
            posts'[i] # posts[i] => \E item \in catRun.results : item.id = i]_vars

(***************************************************************************)
(* C37: once a batch has been committed and counted, every post of the     *)
(* batch has needsProcessing = false, so that processedCount, which grew   *)
(* by the size of the batch, is the number of posts the job has marked     *)
(* processed.                                                              *)
(***************************************************************************)
\* Posts of the job's list that are no longer pending
MarkedProcessed == {catRun.list[k] : k \in {x \in 1..Len(catRun.list) :
                                               ~posts[catRun.list[x]].needsProcessing}}

C37_CountedBatchIsProcessed ==
    (catRun # Idle /\ catRun.pc = "delay" /\ catRun.threw = "no") =>
        /\ \A i \in CurrentBatch : ~posts[i].needsProcessing
        /\ catRun.processedCount = Cardinality(MarkedProcessed)

\* What does hold: a counted batch adds its size to processedCount, and the
\* posts its results name are no longer pending
C37_CountGrowsByBatchSize ==
    [][(catRun # Idle /\ catRun.pc = "notify" /\ catRun'.pc = "delay") =>
          /\ catRun'.processedCount = catRun.processedCount + Cardinality(CurrentBatch)
          /\ \A item \in catRun.results : ~posts[item.id].needsProcessing]_vars

(***************************************************************************)
(* Comment trees: processComments                                          *)
(*                                                                         *)
(* After the upsert of a post, saveAndProcessPost fetches the submission's *)
(* comments and walks them depth first: a comment is upserted, and only    *)
(* if that succeeded are its replies walked; an error is logged and the    *)
(* walk goes on with the next sibling.  A comment of the feed names its    *)
(* parent as t3_<post> (top level) or t1_<comment>; a comment belongs to   *)
(* one submission.  The listing of p2 holds a reply (c6) whose parent was  *)
(* not returned.                                                           *)
(***************************************************************************)
ReplyPosts == {"p1", "p2"}

\* submission.comments.fetchAll({ limit: 100 }): the top-level entries
Listing(p) == IF p = "p1" THEN <<"c1">> ELSE <<"c4", "c6">>

\* A comment of the feed: its parent_id and its replies
FeedComment(c) ==
    CASE c = "c1" -> [parent_id |-> <<"t3", "p1">>, replies |-> <<"c2">>]
      [] c = "c2" -> [parent_id |-> <<"t1", "c1">>, replies |-> <<"c3">>]
      [] c = "c3" -> [parent_id |-> <<"t1", "c2">>, replies |-> <<>>]
      [] c = "c4" -> [parent_id |-> <<"t3", "p2">>, replies |-> <<"c5">>]
      [] c = "c5" -> [parent_id |-> <<"t1", "c4">>, replies |-> <<>>]
      [] OTHER    -> [parent_id |-> <<"t1", "c7">>, replies |-> <<>>]

\* comment.parent_id.startsWith("t1_") ? comment.parent_id.substring(3) : null
ParentCommentId(parent_id) == IF parent_id[1] = "t1" THEN parent_id[2] ELSE Null

\* A store that accepts any parentCommentId
ParentKeyHolds_Unchecked(parent) == TRUE

\* The foreign key of RedditComment.parentComment: a parentCommentId that is
\* set references a persisted comment
ParentKeyHolds(parent) ==
    parent = Null \/ (parent \in CommentIds /\ redditComments[parent] # NoRow)

\* redditComment.upsert, create branch
CommentCreate(c, postId, score) ==
    [exists |-> TRUE, id |-> c, postId |-> postId,
     parentCommentId |-> ParentCommentId(FeedComment(c).parent_id),
     score |-> score, lastUpdated |-> clock]

\* redditComment.upsert, update branch
CommentUpdate(row, score) == [row EXCEPT !.score = score, !.lastUpdated = clock]

\* saveAndProcessPost: the post is upserted and its comments are fetched
ReplyBegin(p, j) ==
    /\ commentRun = Idle
    /\ posts' = [posts EXCEPT ![p] =
          PostUpsert(posts[p], p,
                     [author |-> "alice", permalink |-> "/r/app/1", created_utc |-> 1,
                      score |-> 1, num_comments |-> 3],
                     j.userId, j.orgId, clock)]
    /\ commentRun' = [pc |-> "walk", postId |-> p, todo |-> Listing(p),
                      done |-> {}, failed |-> {}]
    /\ UNCHANGED <<clock, redditComments, replyOthers>>

\* A catch block that goes on to walk the replies of the comment it logged
AfterCatch_WalksReplies(c, todo) == FeedComment(c).replies \o Tail(todo)

\* catch (error) { console.error(...) }: the loop goes on with the next sibling
AfterCatch(c, todo) == Tail(todo)

\* One iteration of the loop of processComments: the upsert succeeds and the
\* replies are walked before the next sibling, or it rejects (the foreign key,
\* or any other database error) and the comment's replies are skipped.
\* (done and failed are history fields: the comments of this walk whose upsert
\* succeeded, and those whose upsert was caught.)
ReplyUpsert(score) ==
    /\ commentRun # Idle /\ commentRun.todo # <<>>
    /\ LET c == Head(commentRun.todo)
           row == redditComments[c]
           new == IF row = NoRow THEN CommentCreate(c, commentRun.postId, score)
                  ELSE CommentUpdate(row, score)
       IN \/ /\ row # NoRow \/ ParentKeyHolds(new.parentCommentId)
             /\ redditComments' = [redditComments EXCEPT ![c] = new]
             /\ commentRun' = [commentRun EXCEPT
                                 !.todo = FeedComment(c).replies \o Tail(@),
                                 !.done = @ \cup {c}]
          \/ /\ redditComments' = redditComments
             /\ commentRun' = [commentRun EXCEPT !.todo = AfterCatch(c, @),
                                                 !.failed = @ \cup {c}]
    /\ UNCHANGED <<clock, posts, replyOthers>>

\* processComments returns
ReplyEnd ==
    /\ commentRun # Idle /\ commentRun.todo = <<>>
    /\ commentRun' = Idle
    /\ UNCHANGED <<clock, posts, redditComments, replyOthers>>

RepliesInit ==
    /\ clock = StartClock
    /\ preferences = [t \in Tenants |-> NoRow]
    /\ posts = [i \in PostIds |-> NoRow]
    /\ alertImpl = "worker"
    /\ alertRuns = [w \in AlertWorkers |-> Idle]
    /\ sent = <<>>
    /\ notificationHistory = <<>>
    /\ ingestRun = Idle
    /\ categories = [t \in Tenants |-> 0]
    /\ catRun = Idle
    /\ emailJobs = 0
    /\ IngestionQueueEmpty
    /\ CategorizationQueueEmpty
    /\ CommentsEmpty
    /\ NoMetricsRequest
    /\ NotificationQueueEmpty

RepliesNext ==
    \/ \E p \in ReplyPosts, j \in IngestJobs : ReplyBegin(p, j)
    \/ \E score \in {1, 2} : ReplyUpsert(score)
    \/ ReplyEnd

SpecReplies == RepliesInit /\ [][RepliesNext]_vars

(***************************************************************************)
(* C12: every persisted comment whose parentCommentId is set has a         *)
(* persisted parent, and the parent belongs to the same post as the child. *)
(***************************************************************************)
C12_ParentPersistedInSamePost ==
    \A c \in CommentIds :
        (redditComments[c] # NoRow /\ redditComments[c].parentCommentId # Null) =>
            LET parent == redditComments[c].parentCommentId
            IN /\ parent \in CommentIds
               /\ redditComments[parent] # NoRow
               /\ redditComments[parent].postId = redditComments[c].postId

\* Both walks have ended: replies two levels deep are persisted, and the reply
\* whose parent the feed did not return is not
C12_TreesPersisted ==
    /\ commentRun = Idle
    /\ redditComments["c3"] # NoRow /\ redditComments["c5"] # NoRow
    /\ redditComments["c3"].parentCommentId = "c2"
    /\ redditComments["c6"] = NoRow

\* The comments below c in the feed
RECURSIVE Descendants(_)
Descendants(c) ==
    LET kids == {FeedComment(c).replies[k] : k \in 1..Len(FeedComment(c).replies)}
    IN kids \cup UNION {Descendants(k) : k \in kids}

\* The feed's parent of a reply, Null for a top-level comment
FeedParent(c) == ParentCommentId(FeedComment(c).parent_id)

(***************************************************************************)
(* C32: in the walk of a post's comment tree a reply is upserted only      *)
(* after the upsert of its parent has succeeded in that walk; when the     *)
(* upsert of a comment fails, none of its descendants is upserted in that  *)
(* walk; and the walk still processes the siblings of a failed comment     *)
(* and their subtrees: when it ends, every top-level comment and every     *)
(* reply of a comment whose upsert succeeded has been attempted.           *)
(***************************************************************************)
C32_RepliesAfterParent ==
    commentRun # Idle =>
        /\ \A c \in commentRun.done :
              FeedParent(c) = Null \/ FeedParent(c) \in commentRun.done
        /\ \A c \in commentRun.failed : Descendants(c) \cap commentRun.done = {}
        /\ commentRun.todo = <<>> =>
              LET tried == commentRun.done \cup commentRun.failed
                  top == Listing(commentRun.postId)
              IN /\ \A k \in 1..Len(top) : top[k] \in tried
                 /\ \A d \in CommentIds : FeedParent(d) \in commentRun.done => d \in tried

\* A walk has ended in which the upsert of c2 failed, its reply c3 was not
\* attempted, and its parent c1 was upserted
C32_SubtreeSkipped ==
    /\ commentRun # Idle /\ commentRun.todo = <<>>
    /\ "c2" \in commentRun.failed /\ "c1" \in commentRun.done
    /\ "c3" \notin commentRun.done \cup commentRun.failed

(***************************************************************************)
(* C33: an attempt to persist a reply whose parent is not persisted makes  *)
(* the run fail: processComments never returns normally from a walk in     *)
(* which such an attempt was rejected.                                     *)
(***************************************************************************)
C33_OrphanFailsRun ==
    [][(commentRun # Idle /\ commentRun' = Idle) =>
          \A c \in commentRun.failed :
              redditComments[c] # NoRow \/ ParentKeyHolds(FeedParent(c))]_vars

\* What does hold: the reply is not stored
C33_OrphanNotStored ==
    \A c \in CommentIds :
        (redditComments[c] # NoRow /\ redditComments[c].parentCommentId # Null)
           => redditComments[redditComments[c].parentCommentId] # NoRow

(***************************************************************************)
(* Window Metrics Aggregator: the percentageChange of a topCategories      *)
(* entry, in GET /metrics (answered from the latest WindowMetrics row plus *)
(* the posts created since) and in GET /metrics/new (answered from the     *)
(* posts of the current and the previous window).                          *)
(*                                                                         *)
(* A percentage is a pair <<n, d>> standing for n / d.                     *)
(***************************************************************************)
MaxCount == 7         \* posts of one category in one window

\* Number(x.toFixed(2)) for x = n / d >= 0: the nearest multiple of 0.01
ToFixed2(n, d) == <<(2 * n * 100 + d) \div (2 * d), 100>>

RatEq(a, b) == a[1] * b[2] = b[1] * a[2]

\* GET /metrics: previousCount is the stored trend's currentCount, count adds
\* the posts created since the row was written
PercentageChangeStored(totalCount, storedCount) ==
    IF storedCount > 0
    THEN ToFixed2((totalCount - storedCount) * 100, storedCount)
    ELSE <<0, 1>>

\* GET /metrics/new
PercentageChangeNew(count, previousCount) ==
    IF previousCount = 0 THEN <<100, 1>>
    ELSE <<(count - previousCount) * 100, previousCount>>

\* GET /metrics: an entry per category of the stored trends.  The only writer of
\* WindowMetrics builds categoryTrends from the posts of its window, so a stored
\* trend counts at least one post.
GetMetrics(storedCount, newCount) ==
    /\ metricsResponse' =
          [route |-> "metrics", count |-> storedCount + newCount,
           previousCount |-> storedCount,
           percentageChange |-> PercentageChangeStored(storedCount + newCount, storedCount)]
    /\ UNCHANGED <<clock, preferences, posts, ingestRun, alertVars, classifyVars,
                   ingestJobVars, catJobVars, replyVars,
                   notifyVars>>

\* GET /metrics/new: an entry per category that has a post in the current window
GetMetricsNew(count, previousCount) ==
    /\ metricsResponse' =
          [route |-> "metrics/new", count |-> count, previousCount |-> previousCount,
           percentageChange |-> PercentageChangeNew(count, previousCount)]
    /\ UNCHANGED <<clock, preferences, posts, ingestRun, alertVars, classifyVars,
                   ingestJobVars, catJobVars, replyVars,
                   notifyVars>>

MetricsInit ==
    /\ clock = StartClock
    /\ preferences = [t \in Tenants |-> NoRow]
    /\ posts = [i \in PostIds |-> NoRow]
    /\ alertImpl = "worker"
    /\ alertRuns = [w \in AlertWorkers |-> Idle]
    /\ sent = <<>>
    /\ notificationHistory = <<>>
    /\ ingestRun = Idle
    /\ categories = [t \in Tenants |-> 0]
    /\ catRun = Idle
    /\ emailJobs = 0
    /\ IngestionQueueEmpty
    /\ CategorizationQueueEmpty
    /\ CommentsEmpty
    /\ NoMetricsRequest
    /\ NotificationQueueEmpty

MetricsNext ==
    \/ \E storedCount \in 1..MaxCount, newCount \in 0..MaxCount :
          GetMetrics(storedCount, newCount)
    \/ \E count \in 1..MaxCount, previousCount \in 0..MaxCount :
          GetMetricsNew(count, previousCount)

SpecMetrics == MetricsInit /\ [][MetricsNext]_vars

(***************************************************************************)
(* C16: percentageChange of a reported category is 100 when the previous   *)
(* count is 0 and the current count is positive, 0 when both are 0, and    *)
(* otherwise (current - previous) / previous * 100.                        *)
(***************************************************************************)
C16_PercentageChange ==
    metricsResponse # Idle =>
        LET r == metricsResponse
        IN IF r.previousCount = 0
           THEN RatEq(r.percentageChange, IF r.count > 0 THEN <<100, 1>> ELSE <<0, 1>>)
           ELSE RatEq(r.percentageChange,
                      <<(r.count - r.previousCount) * 100, r.previousCount>>)

\* The same property of GET /metrics/new alone
C16_PercentageChangeNew ==
    (metricsResponse # Idle /\ metricsResponse.route = "metrics/new")
        => C16_PercentageChange

\* GET /metrics/new has answered for a category that is new in the current window
C16_NewCategoryReported ==
    /\ metricsResponse # Idle
    /\ metricsResponse.route = "metrics/new"
    /\ metricsResponse.previousCount = 0
    /\ metricsResponse.percentageChange = <<100, 1>>

\* What GET /metrics does establish: the value is within 0.005 of the quotient
C16_StoredWithinRounding ==
    (metricsResponse # Idle /\ metricsResponse.route = "metrics") =>
        LET r == metricsResponse
            exact == (r.count - r.previousCount) * 100 * 100
            shown == r.percentageChange[1] * r.previousCount
        IN /\ 2 * (shown - exact) <= r.previousCount
           /\ 2 * (exact - shown) <= r.previousCount

(***************************************************************************)
(* Window Metrics Aggregator: which categories are reported.  A window is  *)
(* given by the number of its posts in each category.  The                 *)
(* "notification-job" processor stores a WindowMetrics row whose           *)
(* categoryTrends come from calculateCategoryTrends; GET /metrics answers  *)
(* from the latest row and the posts created since; GET /metrics/new       *)
(* answers from the posts of the current window.                           *)
(***************************************************************************)
MaxPerCategory == 2   \* posts of one category in one window

MetricCategories == {"Bug", "Feature", "Noise"}

WindowCounts == [MetricCategories -> 0..MaxPerCategory]

\* posts.length of a window
PostCount(window) == window["Bug"] + window["Feature"] + window["Noise"]

\* calculateCategoryTrends: one trend per category of the current window
calculateCategoryTrends(current, previous) ==
    {[category |-> c, currentCount |-> current[c], previousCount |-> previous[c]] :
        c \in {x \in MetricCategories : current[x] > 0}}

\* topCategories of GET /metrics/new: the categories of the window's posts
\* that pass .filter(([category]) => category !== "Noise")
TopCategoriesNew(current) ==
    {c \in MetricCategories : current[c] > 0 /\ c # "Noise"}

\* groupPostsByTimeAndCategory: allCategories = Object.keys(categoryTotals)
groupPostsByTimeAndCategory(current) == {c \in MetricCategories : current[c] > 0}

\* The "notification-job" processor: windowMetrics.create
StoreWindowMetrics(current, previous) ==
    /\ metricsResponse' =
          [route |-> "windowMetrics",
           otherPosts |-> current["Bug"] + current["Feature"],
           noisePosts |-> current["Noise"],
           topCategories |-> {},
           categoryTrends |->
               {t.category : t \in calculateCategoryTrends(current, previous)},
           postCount |-> PostCount(current)]
    /\ UNCHANGED <<clock, preferences, posts, ingestRun, alertVars, classifyVars,
                   ingestJobVars, catJobVars, replyVars,
                   notifyVars>>

\* GET /metrics: topCategories has an entry per stored trend;
\* currentWindowPosts is latestMetrics.totalPosts + currentPosts.length
GetMetricsCategories(stored, since) ==
    /\ metricsResponse' =
          [route |-> "metrics",
           otherPosts |-> stored["Bug"] + stored["Feature"]
                            + since["Bug"] + since["Feature"],
           noisePosts |-> stored["Noise"] + since["Noise"],
           topCategories |->
               {t.category : t \in calculateCategoryTrends(stored, stored)},
           categoryTrends |-> {},
           postCount |-> PostCount(stored) + PostCount(since)]
    /\ UNCHANGED <<clock, preferences, posts, ingestRun, alertVars, classifyVars,
                   ingestJobVars, catJobVars, replyVars,
                   notifyVars>>

\* GET /metrics/new: currentWindow of the response
GetMetricsNewCategories(current) ==
    /\ metricsResponse' =
          [route |-> "metrics/new",
           otherPosts |-> current["Bug"] + current["Feature"],
           noisePosts |-> current["Noise"],
           topCategories |-> TopCategoriesNew(current),
           categoryTrends |-> groupPostsByTimeAndCategory(current),
           postCount |-> PostCount(current)]
    /\ UNCHANGED <<clock, preferences, posts, ingestRun, alertVars, classifyVars,
                   ingestJobVars, catJobVars, replyVars,
                   notifyVars>>

TrendsNext ==
    \/ \E current \in WindowCounts, previous \in WindowCounts :
          StoreWindowMetrics(current, previous)
    \/ \E stored \in WindowCounts, since \in WindowCounts :
          GetMetricsCategories(stored, since)
    \/ \E current \in WindowCounts : GetMetricsNewCategories(current)

SpecTrends == MetricsInit /\ [][TrendsNext]_vars

(***************************************************************************)
(* C34: the category "Noise" is never among the category entries the       *)
(* aggregator reports for a window, while the posts categorized "Noise"    *)
(* are counted in the window's post count.                                 *)
(***************************************************************************)
C34_NoiseNeverReported ==
    metricsResponse # Idle =>
        /\ "Noise" \notin metricsResponse.topCategories
        /\ "Noise" \notin metricsResponse.categoryTrends
        /\ metricsResponse.postCount =
              metricsResponse.otherPosts + metricsResponse.noisePosts

\* What does hold: the post counts include the Noise posts, and the
\* topCategories of GET /metrics/new leave Noise out
C34_NoiseCounted ==
    metricsResponse # Idle => metricsResponse.postCount =
              metricsResponse.otherPosts + metricsResponse.noisePosts

C34_NewTopCategoriesWithoutNoise ==
    (metricsResponse # Idle /\ metricsResponse.route = "metrics/new")
       => "Noise" \notin metricsResponse.topCategories

(***************************************************************************)
(* Writers of the notification settings in Preferences: POST /configure,   *)
(* POST /start and POST /stop of the notification routes, and PUT of the   *)
(* preferences route.  Numeric settings are sent at their schema defaults. *)
(* (The routes also add or remove the tenant's repeatable notification     *)
(* job: startNotifications and stopNotifications below; the alerting model *)
(* above takes a tick for any tenant at any time.)                         *)
(***************************************************************************)
\* Recipient lists a request body carries
EmailLists == {{}, {"ops"}}

\* A configure whose update branch never writes lastNotified
Configure_KeepsLastNotified(t, emails) ==
    /\ preferences' = [preferences EXCEPT ![t] =
          IF preferences[t] = NoRow
          THEN [DefaultPrefs EXCEPT
                  !.emails = emails, !.timeWindow = 24, !.issueThreshold = 3,
                  !.enabled = (emails # {}), !.lastNotified = NullNum,
                  !.ingestionActive = TRUE, !.ingestionSchedule = Null,
                  !.triggerCategorization = FALSE]
          ELSE [preferences[t] EXCEPT
                  !.emails = emails, !.timeWindow = 24, !.issueThreshold = 3,
                  !.volumeThresholdMultiplier = <<3, 2>>,
                  !.sentimentThreshold = 0, !.commentGrowthThreshold = 2,
                  !.enabled = (emails # {})]]
    /\ settingsRequest' = [route |-> "configure", tenant |-> t, emails |-> emails]
    /\ UNCHANGED <<clock, posts, ingestRun, alertVars, classifyVars, ingestJobVars,
                   catJobVars, replyVars, metricsVars, notifyQueueVars>>

\* POST /configure: upsert with enabled: settings.emails.length > 0
Configure(t, emails) ==
    /\ preferences' = [preferences EXCEPT ![t] =
          IF preferences[t] = NoRow
          THEN [DefaultPrefs EXCEPT
                  !.emails = emails, !.timeWindow = 24, !.issueThreshold = 3,
                  !.enabled = (emails # {}), !.lastNotified = NullNum,
                  !.ingestionActive = TRUE, !.ingestionSchedule = Null,
                  !.triggerCategorization = FALSE]
          ELSE [preferences[t] EXCEPT
                  !.emails = emails, !.timeWindow = 24, !.issueThreshold = 3,
                  !.volumeThresholdMultiplier = <<3, 2>>,
                  !.sentimentThreshold = 0, !.commentGrowthThreshold = 2,
                  !.enabled = (emails # {}),
                  !.lastNotified = IF emails # {} THEN NullNum ELSE @]]
    /\ settingsRequest' = [route |-> "configure", tenant |-> t, emails |-> emails]
    /\ UNCHANGED <<clock, posts, ingestRun, alertVars, classifyVars, ingestJobVars,
                   catJobVars, replyVars, metricsVars, notifyQueueVars>>

\* POST /start (notifications): upsert with enabled: true; a body without an
\* emails field (given = FALSE) leaves the column alone on update and creates
\* [] (emails || [])
NotificationsStart(t, given, emails) ==
    /\ preferences' = [preferences EXCEPT ![t] =
          IF preferences[t] = NoRow
          THEN [DefaultPrefs EXCEPT
                  !.emails = IF given THEN emails ELSE {},
                  !.timeWindow = 24, !.issueThreshold = 3, !.enabled = TRUE]
          ELSE [preferences[t] EXCEPT
                  !.emails = IF given THEN emails ELSE @,
                  !.timeWindow = 24, !.issueThreshold = 3,
                  !.volumeThresholdMultiplier = <<3, 2>>,
                  !.sentimentThreshold = 0, !.commentGrowthThreshold = 2,
                  !.enabled = TRUE]]
    /\ settingsRequest' = [route |-> "start", tenant |-> t,
                           emails |-> IF given THEN emails ELSE {}]
    /\ UNCHANGED <<clock, posts, ingestRun, alertVars, classifyVars, ingestJobVars,
                   catJobVars, replyVars, metricsVars, notifyQueueVars>>

\* POST /stop (notifications): 404 without a row, else enabled: false
NotificationsStop(t) ==
    /\ preferences[t] # NoRow
    /\ preferences' = [preferences EXCEPT ![t].enabled = FALSE]
    /\ settingsRequest' = [route |-> "stop", tenant |-> t, emails |-> {}]
    /\ UNCHANGED <<clock, posts, ingestRun, alertVars, classifyVars, ingestJobVars,
                   catJobVars, replyVars, metricsVars, notifyQueueVars>>

\* PUT /preferences: upsert with the parsed body on both branches; the schema
\* fills absent fields with its defaults (emails [], enabled true, ...)
PutPreferences(t, emails, enabled) ==
    /\ preferences' = [preferences EXCEPT ![t] =
          [(IF preferences[t] = NoRow THEN DefaultPrefs ELSE preferences[t]) EXCEPT
              !.emails = emails, !.enabled = enabled,
              !.ingestionActive = FALSE, !.triggerCategorization = FALSE,
              !.issueThreshold = 0, !.timeWindow = 24,
              !.volumeThresholdMultiplier = <<3, 2>>,
              !.sentimentThreshold = 0, !.commentGrowthThreshold = 2]]
    /\ settingsRequest' = [route |-> "preferences", tenant |-> t, emails |-> emails]
    /\ UNCHANGED <<clock, posts, ingestRun, alertVars, classifyVars, ingestJobVars,
                   catJobVars, replyVars, metricsVars, notifyQueueVars>>

SettingsInit ==
    /\ clock = StartClock
    /\ preferences = [t \in Tenants |-> NoRow]
    /\ posts = [i \in PostIds |-> NoRow]
    /\ alertImpl = "worker"
    /\ alertRuns = [w \in AlertWorkers |-> Idle]
    /\ sent = <<>>
    /\ notificationHistory = <<>>
    /\ ingestRun = Idle
    /\ categories = [t \in Tenants |-> 0]
    /\ catRun = Idle
    /\ emailJobs = 0
    /\ IngestionQueueEmpty
    /\ CategorizationQueueEmpty
    /\ CommentsEmpty
    /\ NoMetricsRequest
    /\ NotificationQueueEmpty

SettingsNext ==
    \/ \E t \in AlertTenants, emails \in EmailLists : Configure(t, emails)
    \/ \E t \in AlertTenants, given \in BOOLEAN, emails \in EmailLists :
          NotificationsStart(t, given, emails)
    \/ \E t \in AlertTenants : NotificationsStop(t)
    \/ \E t \in AlertTenants, emails \in EmailLists, enabled \in BOOLEAN :
          PutPreferences(t, emails, enabled)

SpecSettings == SettingsInit /\ [][SettingsNext]_vars

(***************************************************************************)
(* The settings writers next to the ticks of one tenant: every operation   *)
(* that writes the tenant's Preferences row, within one hour.              *)
(***************************************************************************)
CooldownTenant == UserT(U1)

CooldownInit ==
    /\ AlertInit
    /\ preferences[CooldownTenant].timeWindow = 1
    /\ preferences[CooldownTenant].issueThreshold = 1

CooldownNext ==
    \/ AlertRead("w1", CooldownTenant)
    \/ AlertEvaluate("w1")
    \/ AlertSend("w1")
    \/ AlertSendHistory("w1")
    \/ AlertHistory("w1")
    \/ AlertUpdate("w1")
    \/ \E emails \in EmailLists : Configure(CooldownTenant, emails)
    \/ \E given \in BOOLEAN, emails \in EmailLists :
          NotificationsStart(CooldownTenant, given, emails)
    \/ NotificationsStop(CooldownTenant)
    \/ \E emails \in EmailLists, enabled \in BOOLEAN :
          PutPreferences(CooldownTenant, emails, enabled)

SpecCooldown == CooldownInit /\ [][CooldownNext]_vars

(***************************************************************************)
(* C38: configuration and the cooldown.  A configure request with          *)
(* recipients on an existing Preferences row sets lastNotified to null; a  *)
(* configure request without recipients leaves lastNotified as it was; and *)
(* nothing but a configure request and the update of a triggered tick      *)
(* changes lastNotified.                                                   *)
(***************************************************************************)
\* The step serves a configure request of tenant t
ConfigureServed(t) ==
    /\ settingsRequest' # Idle
    /\ settingsRequest'.route = "configure"
    /\ settingsRequest'.tenant = t
    /\ UNCHANGED <<clock, alertRuns>>

\* The step is the preferences.update that ends a triggered tick of tenant t
TickUpdates(t) ==
    \E w \in AlertWorkers :
        /\ alertRuns[w] # Idle /\ alertRuns[w].pc = "update"
        /\ alertRuns[w].tenant = t
        /\ alertRuns'[w] = Idle
        /\ \E k \in 1..Len(sent) : sent[k].tenant = t

C38_ConfigureAndCooldown ==
    [][\A t \in Tenants :
          preferences[t] # NoRow =>
              /\ (ConfigureServed(t) /\ settingsRequest'.emails # {})
                    => preferences'[t].lastNotified = NullNum
              /\ (ConfigureServed(t) /\ settingsRequest'.emails = {})
                    => preferences'[t].lastNotified = preferences[t].lastNotified
              /\ preferences'[t].lastNotified # preferences[t].lastNotified
                    => ConfigureServed(t) \/ TickUpdates(t)]_vars

\* No tick is in progress, the tenant has been alerted, and a configure request
\* with recipients has put lastNotified back to null
C38_CooldownReset ==
    /\ \A w \in AlertWorkers : alertRuns[w] = Idle
    /\ \E k \in 1..Len(sent) : sent[k].tenant = CooldownTenant
    /\ settingsRequest # Idle
    /\ settingsRequest.route = "configure" /\ settingsRequest.emails # {}
    /\ preferences[CooldownTenant].lastNotified = NullNum

\* The tenant has been alerted, and a configure request without recipients has
\* left the time of the alert in lastNotified
C38_CooldownKept ==
    /\ \A w \in AlertWorkers : alertRuns[w] = Idle
    /\ settingsRequest # Idle
    /\ settingsRequest.route = "configure" /\ settingsRequest.emails = {}
    /\ preferences[CooldownTenant].lastNotified # NullNum

(***************************************************************************)
(* Notification queue lifecycle: startNotifications, stopNotifications     *)
(*                                                                         *)
(* POST /start calls startNotifications(targetId, isOrg, interval) after   *)
(* its upsert.  It removes the repeatable jobs whose jobId contains the    *)
(* targetId, waits a second and adds the tenant's repeatable job under the *)
(* jobId notifications:<user|org>:<targetId>.  stopNotifications removes   *)
(* the repeatable jobs in the same way and then the waiting and the        *)
(* delayed jobs whose data name the target.  A repeatable job is           *)
(* registered under name, jobId and interval; removing it by key removes   *)
(* its delayed instance with it.  One call runs at a time.                 *)
(***************************************************************************)
\* (targetId, isOrg) pairs: two users, the id of one a prefix of the other's,
\* and an organization whose id string is that of the first user
NotifyTargets ==
    {[targetId |-> U1, isOrg |-> FALSE], [targetId |-> U12, isOrg |-> FALSE],
     [targetId |-> U1, isOrg |-> TRUE]}

\* updatedPreferences.timeWindow, in hours
NotifyIntervals == {1, 24}

\* `notifications:${isOrg ? "org" : "user"}:${targetId}`
getNotificationJobName(target) ==
    <<"notifications", ":", IF target.isOrg THEN "org" ELSE "user", ":">>
        \o target.targetId

\* repeatableJobs.filter(job => job?.name === "notification-job" && job?.id &&
\*                              job.id.includes(targetId))
ExistingNotificationJobs(target) ==
    {r \in notificationRepeat : Includes(r.id, target.targetId)}

\* The delayed instance of a repeatable job
NotifyDelayed(r) == [id |-> r.id, every |-> r.every, data |-> r.data, state |-> "delayed"]

\* removeRepeatableByKey for each of the jobs: the registrations and their
\* delayed instances go
RemoveRepeatables(removed) ==
    /\ notificationRepeat' = notificationRepeat \ removed
    /\ notificationJobs' = notificationJobs \ {NotifyDelayed(r) : r \in removed}

\* startNotifications up to the one-second wait
StartNotificationsRemove(target, interval) ==
    /\ notificationCall = Idle
    /\ RemoveRepeatables(ExistingNotificationJobs(target))
    /\ notificationCall' = [op |-> "start", pc |-> "add", target |-> target,
                            interval |-> interval]
    /\ UNCHANGED <<clock, preferences, posts, ingestRun, alertVars, classifyVars,
                   ingestJobVars, catJobVars, replyVars, metricsVars, settingsRequest>>

\* startNotifications, notificationQueue.add("notification-job", { targetId,
\* isOrg }, { jobId: jobName, repeat: { every: interval } })
StartNotificationsAdd ==
    /\ notificationCall # Idle /\ notificationCall.op = "start"
    /\ LET r == [id |-> getNotificationJobName(notificationCall.target),
                 every |-> notificationCall.interval,
                 data |-> notificationCall.target]
       IN /\ notificationRepeat' = notificationRepeat \cup {r}
          /\ notificationJobs' = notificationJobs \cup {NotifyDelayed(r)}
    /\ notificationCall' = Idle
    /\ UNCHANGED <<clock, preferences, posts, ingestRun, alertVars, classifyVars,
                   ingestJobVars, catJobVars, replyVars, metricsVars, settingsRequest>>

\* stopNotifications, the removal of the repeatable jobs
StopNotificationsRepeat(target) ==
    /\ notificationCall = Idle
    /\ RemoveRepeatables(ExistingNotificationJobs(target))
    /\ notificationCall' = [op |-> "stop", pc |-> "jobs", target |-> target,
                            interval |-> 0]
    /\ UNCHANGED <<clock, preferences, posts, ingestRun, alertVars, classifyVars,
                   ingestJobVars, catJobVars, replyVars, metricsVars, settingsRequest>>

\* stopNotifications, getWaiting and getDelayed: job.data.targetId === targetId
\* && job.data.isOrg === isOrg
StopNotificationsJobs ==
    /\ notificationCall # Idle /\ notificationCall.op = "stop"
    /\ notificationJobs' = {j \in notificationJobs : j.data # notificationCall.target}
    /\ notificationCall' = Idle
    /\ UNCHANGED <<clock, preferences, posts, ingestRun, alertVars, classifyVars,
                   ingestJobVars, catJobVars, replyVars, metricsVars, settingsRequest,
                   notificationRepeat>>

\* The interval of a delayed instance has elapsed: it waits for a worker
NotifyJobDue(j) ==
    /\ j \in notificationJobs /\ j.state = "delayed"
    /\ notificationJobs' = (notificationJobs \ {j}) \cup {[j EXCEPT !.state = "waiting"]}
    /\ UNCHANGED <<clock, preferences, posts, ingestRun, alertVars, classifyVars,
                   ingestJobVars, catJobVars, replyVars, metricsVars, settingsRequest,
                   notificationRepeat, notificationCall>>

\* A worker takes a waiting instance (the tick of the alerting engine;
\* removeOnComplete: true), and the next instance of its repeatable job is
\* created if the job is still registered
NotifyJobTake(j) ==
    /\ j \in notificationJobs /\ j.state = "waiting"
    /\ LET r == [id |-> j.id, every |-> j.every, data |-> j.data]
       IN notificationJobs' = (notificationJobs \ {j})
              \cup (IF r \in notificationRepeat THEN {NotifyDelayed(r)} ELSE {})
    /\ UNCHANGED <<clock, preferences, posts, ingestRun, alertVars, classifyVars,
                   ingestJobVars, catJobVars, replyVars, metricsVars, settingsRequest,
                   notificationRepeat, notificationCall>>

NotifyJobsNext ==
    \/ \E target \in NotifyTargets, interval \in NotifyIntervals :
          StartNotificationsRemove(target, interval)
    \/ StartNotificationsAdd
    \/ \E target \in NotifyTargets : StopNotificationsRepeat(target)
    \/ StopNotificationsJobs
    \/ \E j \in notificationJobs : NotifyJobDue(j)
    \/ \E j \in notificationJobs : NotifyJobTake(j)

SpecNotifyJobs == SettingsInit /\ [][NotifyJobsNext]_vars

(***************************************************************************)
(* C40: startNotifications and stopNotifications for a tenant remove only  *)
(* repeatable jobs and waiting or delayed jobs of that tenant: every       *)
(* repeatable job and every job of another tenant is still there after     *)
(* each step of the call, whatever the two tenants' ids are; and when      *)
(* startNotifications returns the tenant has exactly one repeatable job.   *)
(***************************************************************************)
\* The step belongs to a startNotifications or stopNotifications call
CallStep == notificationCall' # notificationCall

\* The target of the call the step belongs to
CallTarget ==
    IF notificationCall # Idle THEN notificationCall.target ELSE notificationCall'.target

RepeatablesOfTarget(set, target) == {r \in set : r.data = target}

C40_OnlyOwnSchedulesRemoved ==
    [][CallStep =>
         /\ \A r \in notificationRepeat : r.data # CallTarget => r \in notificationRepeat'
         /\ \A j \in notificationJobs : j.data # CallTarget => j \in notificationJobs'
         /\ (notificationCall # Idle /\ notificationCall.op = "start")
               => Cardinality(RepeatablesOfTarget(notificationRepeat', CallTarget)) = 1]_vars

\* What does hold: a call removes only repeatable jobs whose jobId contains the
\* target's id, the job clean-up of stopNotifications removes only the
\* target's jobs, and startNotifications leaves the target one repeatable job
C40_RemovedIdsContainTarget ==
    [][CallStep =>
         \A r \in notificationRepeat \ notificationRepeat' :
            Includes(r.id, CallTarget.targetId)]_vars

C40_JobCleanupExact ==
    [][(CallStep /\ notificationCall # Idle /\ notificationCall.op = "stop") =>
         \A j \in notificationJobs : j.data # CallTarget => j \in notificationJobs']_vars

C40_OneScheduleAfterStart ==
    [][(CallStep /\ notificationCall # Idle /\ notificationCall.op = "start") =>
         Cardinality(RepeatablesOfTarget(notificationRepeat', CallTarget)) = 1]_vars

(***************************************************************************)
(* C18: a stored Preferences row has enabled = TRUE exactly when its       *)
(* recipient list is not empty.                                            *)
(***************************************************************************)
C18_EnabledIffRecipients ==
    \A t \in Tenants :
        preferences[t] # NoRow =>
            (preferences[t].enabled <=> preferences[t].emails # {})

====
